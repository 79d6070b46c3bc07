---------------------------- MODULE DevicesProofs ----------------------------
(***************************************************************************)
(* Two safety properties of Devices, for every sysfs, rules, numbers and    *)
(* instances.                                                               *)
(*                                                                         *)
(* DevicesCurrent says only what holds when init waits; NodeInv says why:   *)
(* until an event is dropped, each device is told of (the nodes and what is *)
(* queued, in order, give its node as it is now) or the walk of sysfs will  *)
(* still come to it.  The latter is a closure: the device is in each set    *)
(* that holds what the walk has left and, with a directory, those in it.    *)
(* FirmwareWhole needs what a process has written so far (Served), and that *)
(* it is the only one.                                                      *)
(***************************************************************************)
EXTENDS Devices, FiniteSetTheorems, SequenceTheorems, TLAPS

Events == [action : {"add", "remove"}, of : Dirs, number : Numbers]
Stages == {"open", "start", "copy", "copied", "failed"}
Loaders == [of : Dirs, at : Stages, pos : Nat]
Frames == [dir : Dirs, poked : BOOLEAN, seen : SUBSET Dirs, must : SUBSET Dirs]
NodeFields == {"number", "block", "mode", "owner"}
Requests == [loading : BOOLEAN, completed : BOOLEAN, aborted : BOOLEAN, data : Seq(Nat), loaders : Nat]

\* The types, and the part of them that each third of the system keeps.
KernelTypes ==
    /\ scenario \in Scenarios /\ present \subseteq Dirs /\ number \in [Dirs -> Numbers]
    /\ changes \in Nat /\ lost \in Nat
    /\ socket \in [queue : Seq(Events), err : BOOLEAN, congested : BOOLEAN]
    /\ Len(socket.queue) <= scenario.capacity
    /\ \A i \in DOMAIN socket.queue : IsDevice(socket.queue[i].of)
InitTypes ==
    /\ pc \in {"early", "walk", "drain", "boot", "poll", "handle"}
    /\ roots \in Seq(Dirs) /\ walk \in Seq(Frames) /\ rules \in Seq(Rules)
    /\ \A i \in DOMAIN walk : walk[i].must \subseteq present
    /\ \A p \in DOMAIN nodes : DOMAIN nodes[p] = NodeFields
\* A process has opened the files of a request that stands, of a firmware there is.
Sound(s, requests) ==
    /\ s.at = "open" => s.pos = 0
    /\ s.at # "open" => s.of \in requests /\ s.pos <= Info[s.of].pages /\ Info[s.of].pages \in Nat
LoaderTypes ==
    /\ request \in [{d \in present : IsRequest(d)} -> Requests]
    /\ loaders \in [DOMAIN loaders -> Loaders] /\ IsFiniteSet(DOMAIN loaders)
    /\ \A l \in DOMAIN loaders : Sound(loaders[l], DOMAIN request)
    /\ faults \in 0..scenario.faults /\ shorts \in 0..scenario.shorts

\* An error of the socket tells of events dropped; the walk never leaves more in
\* the socket than the kernel has sent by itself, and the event it asked for.
KeepsUp ==
    /\ lost = 0 => ~socket.err /\ ~socket.congested
    /\ pc = "early" => lost = 0 /\ socket.queue = <<>>
    /\ pc \in {"walk", "drain"} =>
        /\ lost = 0 => Len(socket.queue) <= changes + IF pc = "drain" THEN 1 ELSE 0
        /\ changes < scenario.capacity => lost = 0

\* A request that one process has opened the files of: how far that one is, or what
\* it has left.
Whole(n) == [i \in 1..n |-> i]
Serves(l, d) == l \in DOMAIN loaders /\ loaders[l].of = d /\ loaders[l].at # "open"
Fresh(d) == /\ request[d].data = <<>> /\ ~request[d].loading /\ ~request[d].completed
Stage(l, d) ==
    /\ loaders[l].at = "start" => Fresh(d) /\ loaders[l].pos = 0
    /\ loaders[l].at # "start" =>
          request[d].loading /\ ~request[d].completed /\ request[d].data = Whole(loaders[l].pos)
    /\ loaders[l].at = "copied" => loaders[l].pos = Info[d].pages
Served(d) ==
    /\ request[d].loaders = 0 => Fresh(d) /\ ~\E l \in DOMAIN loaders : Serves(l, d)
    /\ request[d].loaders = 1 /\ shorts = 0 =>
         \/ \E l \in DOMAIN loaders : Serves(l, d) /\ Stage(l, d) /\ \A k \in DOMAIN loaders : Serves(k, d) => k = l
         \/ /\ ~\E l \in DOMAIN loaders : Serves(l, d)
            /\ request[d].completed
            /\ request[d].aborted \/ request[d].data = Whole(Info[d].pages)
FirmwareInv == (\A d \in DOMAIN request : Served(d)) /\ FirmwareWhole

\* The directories there are (P) that are in S or below it; those the walk has left,
\* and the one it is about to ask for.
Under(S, P) == {d \in P : \A C \in SUBSET P :
    S \intersect P \subseteq C /\ (\A x \in P : Parent[x] \in C => x \in C) => d \in C}
Left == IF pc = "early" THEN {Roots[i] : i \in DOMAIN Roots}
        ELSE {roots[i] : i \in DOMAIN roots} \union {d \in Dirs : \E i \in DOMAIN walk : d \in walk[i].must \ walk[i].seen}
Unpoked == {d \in Dirs : walk # <<>> /\ ~walk[1].poked /\ walk[1].dir = d}

\* sysfs is a tree, and there is a walk only while there is one.
Rooted == \A d \in present : Parent[d] \in present \union {Null}
WalkInv ==
    /\ Rooted
    /\ pc \in {"early", "boot", "poll", "handle"} => walk = <<>>
    /\ pc \in {"boot", "poll", "handle"} => roots = <<>>
    /\ pc = "early" => DOMAIN nodes = {}
    /\ pc = "drain" => walk # <<>> /\ walk[1].poked
    /\ \A i \in DOMAIN walk : i # 1 => walk[i].poked

\* The events of a device that are queued.
Of(d) == {i \in DOMAIN socket.queue : socket.queue[i].of = d}
\* What init will know when it has handled what is queued: the last event of a
\* device says how it is now; each makes sense after the one before it, and the
\* first after the node there is; without events the node is right.
IsFirst(d, i) == \A j \in Of(d) : i <= j
IsLast(d, i) == \A j \in Of(d) : j <= i
LastIsNow(d) == \A i \in Of(d) : IsLast(d, i) =>
    /\ socket.queue[i].action = "add" <=> d \in present
    /\ d \in present => socket.queue[i].number = number[d]
Chained(d) == \A i, j \in Of(d) :
    i < j /\ socket.queue[j].action = "add" /\ (\A k \in Of(d) : k <= i \/ k >= j) =>
        socket.queue[i].action = "remove" \/ socket.queue[i].number = socket.queue[j].number
Fits(d, n) == devpath(d) \in DOMAIN nodes => nodes[devpath(d)].number = n
FirstFits(d) == \A i \in Of(d) :
    socket.queue[i].action = "add" /\ IsFirst(d, i) => Fits(d, socket.queue[i].number)
Shown(d) == Of(d) = {} =>
    (devpath(d) \in DOMAIN nodes <=> d \in present /\ HasNode(d)) /\ Fits(d, number[d])
Told(d) == LastIsNow(d) /\ Chained(d) /\ FirstFits(d) /\ Shown(d)
\* The walk will come to it.
Untold(d) ==
    /\ Of(d) = {} /\ devpath(d) \notin DOMAIN nodes
    /\ d \in present /\ (d \in Under(Left, present) \/ d \in Unpoked)
AllTold == lost = 0 => \A d \in Alone : Told(d) \/ Untold(d)
NodeInv == pc # "early" => AllTold
\* What a node says besides its number.
RightsInv ==
    /\ \A p \in DOMAIN nodes :
        /\ p \in {devpath(d) : d \in {x \in Dirs : Makes(x)}}
        /\ nodes[p].number <= 255
        /\ scenario.late = <<>> =>
              nodes[p].mode = get_device_perm(p).mode /\ nodes[p].owner = get_device_perm(p).owner
    /\ \A d \in Alone : devpath(d) \in DOMAIN nodes => nodes[devpath(d)].block = (Info[d].subsystem = "block")

-----------------------------------------------------------------------------
(* Types *)

LEMMA EventIsTyped ==
    ASSUME NEW d \in Dirs, NEW n \in Numbers, NEW a \in {"add", "remove"}
    PROVE  Event(a, d, n) \in Events /\ Event(a, d, n).of = d /\ Event(a, d, n).number = n /\ Event(a, d, n).action = a
  BY DEF Event, Events

\* What sending an event does to the socket, and when the event is dropped.
LEMMA SendsSays ==
    ASSUME KernelTypes, NEW e \in Events, Sends(e)
    PROVE  /\ socket' \in [queue : Seq(Events), err : BOOLEAN, congested : BOOLEAN]
           /\ lost' \in Nat
           /\ Len(socket'.queue) <= scenario.capacity
           /\ Len(socket'.queue) <= Len(socket.queue) + 1
           /\ \A i \in DOMAIN socket'.queue : IsDevice(socket'.queue[i].of)
           /\ Len(socket.queue) < scenario.capacity /\ ~socket.congested => lost' = lost
           /\ lost' = 0 => lost = 0
           /\ lost' = 0 /\ ~socket.err /\ ~socket.congested =>
                 /\ ~socket'.err /\ ~socket'.congested
                 /\ socket'.queue = IF pc # "early" /\ IsDevice(e.of) THEN Append(socket.queue, e) ELSE socket.queue
           /\ pc = "early" => socket' = socket /\ lost' = lost
  <1>1. /\ socket \in [queue : Seq(Events), err : BOOLEAN, congested : BOOLEAN] /\ lost \in Nat
        /\ Len(socket.queue) <= scenario.capacity /\ scenario.capacity \in Nat
        /\ \A i \in DOMAIN socket.queue : IsDevice(socket.queue[i].of)
    BY DevicesAssumption DEF KernelTypes
  <1>2. CASE ~(Listening /\ IsDevice(e.of))
    <2>1. UNCHANGED <<socket, lost>>
      BY <1>2 DEF Sends
    <2> QED  BY <1>1, <1>2, <2>1 DEF Listening
  <1>3. CASE Listening /\ IsDevice(e.of) /\ Len(socket.queue) < scenario.capacity /\ ~socket.congested
    <2>1. socket' = [socket EXCEPT !.queue = Append(socket.queue, e)] /\ lost' = lost
      BY <1>3 DEF Sends
    <2>2. /\ Append(socket.queue, e) \in Seq(Events) /\ Len(Append(socket.queue, e)) = Len(socket.queue) + 1
          /\ \A i \in DOMAIN Append(socket.queue, e) : IsDevice(Append(socket.queue, e)[i].of)
      BY <1>1, <1>3
    <2>3. socket'.queue = Append(socket.queue, e) /\ socket'.err = socket.err /\ socket'.congested = socket.congested
      BY <1>1, <2>1
    <2>4. socket' \in [queue : Seq(Events), err : BOOLEAN, congested : BOOLEAN]
      BY <1>1, <2>1, <2>2
    <2> HIDE DEF Events
    <2> QED  BY <1>1, <1>3, <2>1, <2>2, <2>3, <2>4 DEF Listening
  <1>4. CASE Listening /\ IsDevice(e.of) /\ ~(Len(socket.queue) < scenario.capacity /\ ~socket.congested)
    <2>1. socket' = [socket EXCEPT !.err = @ \/ ~socket.congested, !.congested = TRUE] /\ lost' = lost + 1
      BY <1>4 DEF Sends
    <2>2. socket'.queue = socket.queue /\ socket' \in [queue : Seq(Events), err : BOOLEAN, congested : BOOLEAN]
      BY <1>1, <2>1
    <2> QED  BY <1>1, <1>4, <2>1, <2>2 DEF Listening
  <1> QED  BY <1>2, <1>3, <1>4

Types == KernelTypes /\ InitTypes /\ LoaderTypes

LEMMA InitIsTyped == Init => Types
  <1> SUFFICES ASSUME Init PROVE Types
    OBVIOUS
  <1> USE DEF Init
  <1>1. scenario \in Scenarios /\ scenario.there \subseteq Dirs /\ scenario.number \in Numbers
        /\ scenario.capacity \in Nat \ {0} /\ scenario.faults \in Nat /\ scenario.shorts \in Nat
    BY DevicesAssumption
  <1>2. KernelTypes
    <2>1. socket.queue = <<>> /\ ~socket.err /\ ~socket.congested
      OBVIOUS
    <2>2. socket \in [queue : Seq(Events), err : BOOLEAN, congested : BOOLEAN]
      OBVIOUS
    <2> QED  BY <1>1, <2>1, <2>2 DEF KernelTypes
  <1>3. InitTypes
    BY <1>1 DEF InitTypes, NoNodes
  <1>4. LoaderTypes
    <2>1. Asked \in Requests
      BY DEF Asked, Requests
    <2>2. DOMAIN loaders = {} /\ loaders \in [DOMAIN loaders -> Loaders]
      OBVIOUS
    <2>3. IsFiniteSet(DOMAIN loaders)
      BY <2>2, FS_EmptySet
    <2>4. request \in [{d \in present : IsRequest(d)} -> Requests]
      BY <2>1
    <2> QED  BY <1>1, <2>2, <2>3, <2>4 DEF LoaderTypes
  <1> QED  BY <1>2, <1>3, <1>4 DEF Types

LEMMA PlugTypes ==
    ASSUME Types, NEW d \in Dirs, Plug(d), UNCHANGED <<scenario, pc, roots, rules, nodes, faults, shorts>>
    PROVE  Types'
  <1> USE DEF Types
  <1>1. PICK n \in Numbers : number' = [number EXCEPT ![d] = n] /\ Sends(Event("add", d, n))
    BY DEF Plug, KernelTypes
  <1>2. Event("add", d, n) \in Events
    BY EventIsTyped
  <1>3. /\ present' = present \union {d} /\ changes' = changes + 1 /\ d \notin present
        /\ UNCHANGED <<walk, loaders>>
        /\ request' = IF IsRequest(d) THEN [x \in DOMAIN request \union {d} |-> IF x = d THEN Asked ELSE request[x]]
                      ELSE request
    BY DEF Plug
  <1>4. KernelTypes'
    <2>1. socket' \in [queue : Seq(Events), err : BOOLEAN, congested : BOOLEAN] /\ lost' \in Nat
          /\ Len(socket'.queue) <= scenario.capacity
          /\ \A i \in DOMAIN socket'.queue : IsDevice(socket'.queue[i].of)
      BY <1>1, <1>2, SendsSays
    <2> QED  BY <1>1, <1>3, <2>1 DEF KernelTypes
  <1>5. InitTypes'
    BY <1>3 DEF InitTypes
  <1>6. LoaderTypes'
    <2>1. Asked \in Requests
      BY DEF Asked, Requests
    <2>2. request' \in [{x \in present' : IsRequest(x)} -> Requests]
      BY <1>3, <2>1 DEF LoaderTypes
    <2>3. DOMAIN request \subseteq DOMAIN request'
      BY <1>3
    <2> QED  BY <1>3, <2>2, <2>3 DEF LoaderTypes, Sound
  <1> QED  BY <1>4, <1>5, <1>6

LEMMA RemovesTypes ==
    ASSUME Types, NEW d \in Dirs, Removes(d), UNCHANGED <<scenario, pc, roots, rules, nodes, faults, shorts>>,
           d \in present, changes' = changes + 1
    PROVE  Types'
  <1> USE DEF Types
  <1>1. /\ present' = present \ {d}
        /\ walk' = [i \in DOMAIN walk |-> [walk[i] EXCEPT !.must = @ \ {d}]]
        /\ Sends(Event("remove", d, number[d]))
        /\ request' = [x \in DOMAIN request \ {d} |-> request[x]]
        /\ loaders' = [p \in {x \in DOMAIN loaders : loaders[x].of # d \/ loaders[x].at = "open"} |-> loaders[p]]
        /\ UNCHANGED number
    BY DEF Removes, Without
  <1>2. Event("remove", d, number[d]) \in Events
    BY EventIsTyped DEF KernelTypes
  <1>3. KernelTypes'
    <2>1. socket' \in [queue : Seq(Events), err : BOOLEAN, congested : BOOLEAN] /\ lost' \in Nat
          /\ Len(socket'.queue) <= scenario.capacity
          /\ \A i \in DOMAIN socket'.queue : IsDevice(socket'.queue[i].of)
      BY <1>1, <1>2, SendsSays
    <2> QED  BY <1>1, <2>1 DEF KernelTypes
  <1>4. InitTypes'
    <2>1. walk \in Seq(Frames) /\ \A i \in DOMAIN walk : walk[i] \in Frames /\ walk[i].must \subseteq present
      BY DEF InitTypes
    <2>2. \A i \in DOMAIN walk : [walk[i] EXCEPT !.must = @ \ {d}] \in Frames
                                 /\ [walk[i] EXCEPT !.must = @ \ {d}].must = walk[i].must \ {d}
      BY <2>1 DEF Frames
    <2>3. DOMAIN walk' = DOMAIN walk /\ walk' \in Seq(Frames)
      BY <1>1, <2>1, <2>2
    <2>4. \A i \in DOMAIN walk' : walk'[i].must \subseteq present'
      BY <1>1, <2>1, <2>2, <2>3
    <2> QED  BY <2>3, <2>4 DEF InitTypes
  <1>5. LoaderTypes'
    <2>1. request' \in [{x \in present' : IsRequest(x)} -> Requests]
      BY <1>1 DEF LoaderTypes
    <2>2. loaders' \in [DOMAIN loaders' -> Loaders] /\ DOMAIN loaders' \subseteq DOMAIN loaders
      BY <1>1 DEF LoaderTypes
    <2>3. IsFiniteSet(DOMAIN loaders')
      BY <2>2, FS_Subset DEF LoaderTypes
    <2>4. \A l \in DOMAIN loaders' : Sound(loaders'[l], DOMAIN request')
      <3> TAKE l \in DOMAIN loaders'
      <3>1. loaders'[l] = loaders[l] /\ l \in DOMAIN loaders /\ (loaders[l].of # d \/ loaders[l].at = "open")
        BY <1>1
      <3>2. DOMAIN request' = DOMAIN request \ {d}
        BY <1>1
      <3> QED  BY <3>1, <3>2 DEF LoaderTypes, Sound
    <2> QED  BY <2>1, <2>2, <2>3, <2>4 DEF LoaderTypes
  <1> QED  BY <1>3, <1>4, <1>5

LEMMA KernelTypesKept ==
    ASSUME Types, Kernel
    PROVE  Types'
  <1>1. PICK d \in Dirs : Plug(d) \/ Unplug(d) \/ Answered(d)
    BY DEF Kernel
  <1>2. UNCHANGED <<scenario, pc, roots, rules, nodes, faults, shorts>>
    BY DEF Kernel
  <1>3. CASE Plug(d)
    BY <1>2, <1>3, PlugTypes
  <1>4. CASE Unplug(d)
    <2>1. Removes(d) /\ d \in present /\ changes' = changes + 1
      BY <1>4 DEF Unplug
    <2> QED  BY <1>2, <2>1, RemovesTypes
  <1>5. CASE Answered(d)
    <2>1. Removes(d) /\ d \in present /\ changes' = changes + 1
      BY <1>5 DEF Answered, Types, LoaderTypes
    <2> QED  BY <1>2, <2>1, RemovesTypes
  <1> QED  BY <1>1, <1>3, <1>4, <1>5

\* A number that no process has.
LEMMA NewLoaderIsNew ==
    ASSUME IsFiniteSet(DOMAIN loaders)
    PROVE  NewLoader \notin DOMAIN loaders
  <1> DEFINE n == Cardinality(DOMAIN loaders)
  <1>1. n \in Nat
    BY FS_CardinalityType
  <1>2. IsFiniteSet(1..n+1) /\ Cardinality(1..n+1) = n + 1
    BY <1>1, FS_Interval
  <1>3. ~(1..n+1 \subseteq DOMAIN loaders)
    <2>1. SUFFICES ASSUME 1..n+1 \subseteq DOMAIN loaders PROVE FALSE
      OBVIOUS
    <2>2. Cardinality(1..n+1) <= n
      BY <2>1, FS_Subset
    <2> QED  BY <1>1, <1>2, <2>2
  <1>4. \E p \in 1..n+1 : p \notin DOMAIN loaders
    BY <1>3
  <1> QED  BY <1>4 DEF NewLoader

\* The node of a rule has all its fields, and a number that fits.
LEMMA NodeShape ==
    ASSUME \A p \in DOMAIN nodes : DOMAIN nodes[p] = NodeFields,
           NEW d \in Dirs, NEW n, NEW q \in DOMAIN make_device(d, n)
    PROVE  DOMAIN make_device(d, n)[q] = NodeFields
  <1>1. CASE n > 255
    BY <1>1 DEF make_device
  <1>2. CASE ~(n > 255)
    <2> DEFINE p == devpath(d)
    <2> DEFINE rule == get_device_perm(p)
    <2> DEFINE node == IF p \in DOMAIN nodes THEN [nodes[p] EXCEPT !.owner = rule.owner]
                     ELSE [number |-> n, block |-> Info[d].subsystem = "block",
                           mode |-> rule.mode, owner |-> rule.owner]
    <2>1. make_device(d, n) = [x \in DOMAIN nodes \union {p} |-> IF x = p THEN node ELSE nodes[x]]
      BY <1>2 DEF make_device
    <2>2. DOMAIN node = NodeFields
      BY DEF NodeFields
    <2> HIDE DEF node, p
    <2> QED  BY <2>1, <2>2
  <1> QED  BY <1>1, <1>2

LEMMA RecvTypes ==
    ASSUME Types, Recv, UNCHANGED scenario
    PROVE  Types'
  <1> USE DEF Types
  <1>1. /\ UNCHANGED <<scenario, present, number, changes, request, result, shorts, lost, roots, walk, rules>>
        /\ pc \in {"drain", "handle"}
    BY DEF Recv, UnchangedKernel, kernelVars
  <1>2. CASE socket.err \/ socket.queue = <<>>
    <2>1. /\ socket' = [socket EXCEPT !.err = FALSE] /\ pc' = IF pc = "drain" THEN "walk" ELSE "poll"
          /\ UNCHANGED <<nodes, loaders, faults>>
      BY <1>2 DEF Recv
    <2>2. socket' \in [queue : Seq(Events), err : BOOLEAN, congested : BOOLEAN] /\ socket'.queue = socket.queue
      BY <2>1 DEF KernelTypes
    <2>3. KernelTypes'
      BY <1>1, <2>2 DEF KernelTypes
    <2>4. InitTypes'
      BY <1>1, <2>1 DEF InitTypes
    <2>5. LoaderTypes'
      BY <1>1, <2>1 DEF LoaderTypes
    <2> QED  BY <2>3, <2>4, <2>5
  <1>3. CASE ~(socket.err \/ socket.queue = <<>>)
    <2> DEFINE e == Head(socket.queue)
    <2> DEFINE r == Tail(socket.queue)
    <2>1. /\ socket' = [socket EXCEPT !.queue = r, !.congested = @ /\ r # <<>>]
          /\ IF Info[e.of].long THEN UNCHANGED <<nodes, loaders, faults>>
             ELSE nodes' = handle_device_event(e) /\ handle_firmware_event(e)
          /\ UNCHANGED pc
      BY <1>3 DEF Recv
    <2>2. /\ socket.queue \in Seq(Events) /\ socket.queue # <<>> /\ socket.err \in BOOLEAN /\ socket.congested \in BOOLEAN
          /\ Len(socket.queue) <= scenario.capacity /\ scenario.capacity \in Nat
      BY <1>3, DevicesAssumption DEF KernelTypes
    <2>3. /\ e \in Events /\ r \in Seq(Events) /\ Len(r) = Len(socket.queue) - 1
          /\ \A i \in DOMAIN r : i + 1 \in DOMAIN socket.queue /\ r[i] = socket.queue[i + 1]
          /\ e = socket.queue[1] /\ 1 \in DOMAIN socket.queue
      <3> HIDE DEF Events
      <3> QED  BY <2>2
    <2> HIDE DEF e, r
    <2>4. KernelTypes'
      <3>1. socket'.queue = r
        BY <2>1, <1>1 DEF KernelTypes
      <3>2. socket' \in [queue : Seq(Events), err : BOOLEAN, congested : BOOLEAN]
        <4>1. socket \in [queue : Seq(Events), err : BOOLEAN, congested : BOOLEAN]
          BY DEF KernelTypes
        <4>2. (socket.congested /\ r # <<>>) \in BOOLEAN
          OBVIOUS
        <4> QED  BY <2>1, <2>3, <4>1, <4>2
      <3>3. Len(r) <= scenario.capacity /\ \A i \in DOMAIN r : IsDevice(r[i].of)
        BY <2>2, <2>3 DEF KernelTypes
      <3> QED  BY <1>1, <3>1, <3>2, <3>3 DEF KernelTypes
    <2>5. InitTypes'
      <3>1. \A p \in DOMAIN nodes : DOMAIN nodes[p] = NodeFields
        BY DEF InitTypes
      <3>2. e.of \in Dirs
        BY <2>3 DEF Events
      <3>3. \A p \in DOMAIN nodes' : DOMAIN nodes'[p] = NodeFields
        <4>1. CASE nodes' = nodes
          BY <3>1, <4>1
        <4>2. CASE nodes' = make_device(e.of, e.number)
          BY <3>1, <3>2, <4>2, NodeShape
        <4>3. CASE nodes' = Without(nodes, devpath(e.of))
          BY <3>1, <4>3 DEF Without
        <4> QED  BY <2>1, <4>1, <4>2, <4>3 DEF handle_device_event
      <3> QED  BY <1>1, <2>1, <3>3 DEF InitTypes
    <2>6. LoaderTypes'
      <3>1. CASE loaders' = loaders /\ faults' = faults
        BY <1>1, <3>1 DEF LoaderTypes
      <3>2. CASE loaders' = loaders /\ Fails
        BY <1>1, <3>2, DevicesAssumption DEF LoaderTypes, KernelTypes, Fails
      <3>3. CASE /\ loaders' = [p \in DOMAIN loaders \union {NewLoader} |->
                             IF p = NewLoader THEN [of |-> e.of, at |-> "open", pos |-> 0] ELSE loaders[p]]
                 /\ faults' = faults
        <4> DEFINE new == [of |-> e.of, at |-> "open", pos |-> 0]
        <4>1. new \in Loaders /\ Sound(new, DOMAIN request)
          BY <2>3 DEF Loaders, Events, Stages, Sound
        <4>2. /\ loaders \in [DOMAIN loaders -> Loaders] /\ IsFiniteSet(DOMAIN loaders)
          BY DEF LoaderTypes
        <4>3. /\ DOMAIN loaders' = DOMAIN loaders \union {NewLoader}
              /\ loaders'[NewLoader] = new
              /\ \A p \in DOMAIN loaders : p # NewLoader => loaders'[p] = loaders[p]
          BY <3>3
        <4> HIDE DEF new
        <4>4. IsFiniteSet(DOMAIN loaders')
          BY <4>2, <4>3, FS_AddElement
        <4>5. loaders' \in [DOMAIN loaders' -> Loaders]
          BY <3>3, <4>1, <4>2, <4>3 DEF new
        <4> QED  BY <1>1, <3>3, <4>1, <4>3, <4>4, <4>5 DEF LoaderTypes
      <3> QED  BY <2>1, <3>1, <3>2, <3>3 DEF handle_firmware_event
    <2> QED  BY <2>4, <2>5, <2>6
  <1> QED  BY <1>2, <1>3

\* What it takes for a step that leaves the kernel, the nodes and the loaders alone.
LEMMA WalkerTypes ==
    ASSUME Types, UNCHANGED <<scenario, present, number, changes, request, shorts, nodes, loaders, faults>>,
           socket' \in [queue : Seq(Events), err : BOOLEAN, congested : BOOLEAN], lost' \in Nat,
           Len(socket'.queue) <= scenario.capacity,
           \A i \in DOMAIN socket'.queue : IsDevice(socket'.queue[i].of),
           pc' \in {"early", "walk", "drain", "boot", "poll", "handle"},
           roots' \in Seq(Dirs), walk' \in Seq(Frames), rules' \in Seq(Rules),
           \A i \in DOMAIN walk' : walk'[i].must \subseteq present
    PROVE  Types'
  <1> USE DEF Types
  <1>1. KernelTypes'
    BY DEF KernelTypes
  <1>2. InitTypes'
    BY DEF InitTypes
  <1>3. LoaderTypes'
    BY DEF LoaderTypes
  <1> QED  BY <1>1, <1>2, <1>3

LEMMA FrameIsTyped ==
    ASSUME present \subseteq Dirs, NEW d \in Dirs
    PROVE  /\ Frame(d) \in Frames /\ Frame(d).dir = d /\ ~Frame(d).poked /\ Frame(d).seen = {}
           /\ Frame(d).must = Children(d) /\ Children(d) \subseteq present
  <1>1. Children(d) \subseteq present
    BY DEF Children
  <1> HIDE DEF Children
  <1> QED  BY <1>1 DEF Frame, Frames

LEMMA TailFrames ==
    ASSUME walk \in Seq(Frames), walk # <<>>
    PROVE  /\ Tail(walk) \in Seq(Frames) /\ Len(Tail(walk)) = Len(walk) - 1 /\ Len(walk) \in Nat \ {0}
           /\ \A i \in DOMAIN Tail(walk) : i + 1 \in DOMAIN walk /\ Tail(walk)[i] = walk[i + 1] /\ i + 1 # 1
           /\ 1 \in DOMAIN walk /\ walk[1] \in Frames
  <1> QED  OBVIOUS

\* The walk goes down: the directory is marked in the frame above it.
Entered(c) == <<Frame(c), [Top EXCEPT !.seen = @ \union {c}]>> \o Tail(walk)

LEMMA EnteredIs ==
    ASSUME walk \in Seq(Frames), walk # <<>>, NEW c \in Dirs, present \subseteq Dirs
    PROVE  /\ Entered(c) \in Seq(Frames) /\ Entered(c)[1] = Frame(c) /\ 1 \in DOMAIN Entered(c)
           /\ 2 \in DOMAIN Entered(c) /\ Entered(c)[2] = [walk[1] EXCEPT !.seen = @ \union {c}]
           /\ \A i \in DOMAIN Entered(c) : i \notin {1, 2} =>
                 i - 1 \in DOMAIN walk /\ i - 1 # 1 /\ Entered(c)[i] = walk[i - 1]
           /\ \A i \in DOMAIN walk : i # 1 => i + 1 \in DOMAIN Entered(c) /\ Entered(c)[i + 1] = walk[i]
           /\ Entered(c) # <<>>
  <1> DEFINE a == Frame(c)
  <1> DEFINE b == [walk[1] EXCEPT !.seen = @ \union {c}]
  <1> DEFINE t == Tail(walk)
  <1>1. a \in Frames
    BY FrameIsTyped
  <1>2. walk[1] \in Frames /\ Len(walk) \in Nat \ {0}
    BY TailFrames
  <1>3. b \in Frames
    BY <1>2 DEF Frames
  <1>4. /\ t \in Seq(Frames) /\ Len(t) = Len(walk) - 1
        /\ \A i \in 1..Len(t) : t[i] = walk[i + 1]
    BY TailFrames
  <1> HIDE DEF a, b, t
  <1>5. /\ <<a, b>> \o t \in Seq(Frames) /\ Len(<<a, b>> \o t) = 2 + Len(t)
        /\ (<<a, b>> \o t)[1] = a /\ (<<a, b>> \o t)[2] = b
        /\ \A i \in 1..Len(t) + 2 : i > 2 => (<<a, b>> \o t)[i] = t[i - 2]
    <2>1. <<a, b>> \in Seq(Frames) /\ Len(<<a, b>>) = 2 /\ <<a, b>>[1] = a /\ <<a, b>>[2] = b
      BY <1>1, <1>3
    <2>2. Len(t) \in Nat
      BY <1>4
    <2> QED  BY <1>4, <2>1, <2>2, ConcatProperties
  <1> DEFINE e == <<a, b>> \o t
  <1>6. Entered(c) = e
    BY DEF Entered, Top, a, b, t
  <1>7. /\ e \in Seq(Frames) /\ Len(e) = Len(walk) + 1 /\ e[1] = a /\ e[2] = b
        /\ \A i \in 1..Len(walk) + 1 : i > 2 => e[i] = t[i - 2]
    BY <1>2, <1>4, <1>5
  <1> HIDE DEF e
  <1>8. DOMAIN e = 1..Len(walk) + 1 /\ DOMAIN walk = 1..Len(walk)
    BY <1>7
  <1>9. \A i \in DOMAIN e : i \notin {1, 2} => i - 1 \in DOMAIN walk /\ i - 1 # 1 /\ e[i] = walk[i - 1]
    <2> TAKE i \in DOMAIN e
    <2> HAVE i \notin {1, 2}
    <2>1. i \in 3..Len(walk) + 1 /\ i - 2 \in 1..Len(t)
      BY <1>2, <1>4, <1>8
    <2>2. e[i] = t[i - 2] /\ t[i - 2] = walk[i - 2 + 1] /\ i - 2 + 1 = i - 1
      BY <1>2, <1>4, <1>7, <2>1
    <2> QED  BY <1>2, <1>8, <2>1, <2>2
  <1>10. \A i \in DOMAIN walk : i # 1 => i + 1 \in DOMAIN e /\ e[i + 1] = walk[i]
    <2> TAKE i \in DOMAIN walk
    <2> HAVE i # 1
    <2>1. i \in 2..Len(walk) /\ i - 1 \in 1..Len(t)
      BY <1>2, <1>4, <1>8
    <2>2. e[i + 1] = t[i + 1 - 2] /\ i + 1 - 2 = i - 1 /\ t[i - 1] = walk[i - 1 + 1] /\ i - 1 + 1 = i
      BY <1>2, <1>4, <1>7, <2>1
    <2> QED  BY <1>2, <1>8, <2>1, <2>2
  <1>11. e # <<>> /\ 1 \in DOMAIN e /\ 2 \in DOMAIN e
    BY <1>2, <1>7, <1>8
  <1> QED  BY <1>6, <1>7, <1>9, <1>10, <1>11 DEF a, b

LEMMA PokeTypes ==
    ASSUME Types, Poke, UNCHANGED scenario
    PROVE  Types'
  <1>1. /\ UNCHANGED <<present, number, changes, request, shorts, nodes, loaders, faults, roots, rules>>
        /\ pc = "walk" /\ walk # <<>> /\ walk' = [walk EXCEPT ![1].poked = TRUE]
        /\ IF Top.dir \in present /\ IsDevice(Top.dir)
           THEN pc' = "drain" /\ Sends(Event("add", Top.dir, number[Top.dir]))
           ELSE UNCHANGED <<pc, socket, lost>>
    BY DEF Poke, UnchangedKernel, kernelVars
  <1>2. KernelTypes /\ InitTypes
    BY DEF Types
  <1>3. walk \in Seq(Frames) /\ 1 \in DOMAIN walk /\ walk[1] \in Frames
    BY <1>1, <1>2, TailFrames DEF InitTypes
  <1>4. Top.dir \in Dirs /\ number[Top.dir] \in Numbers
    BY <1>2, <1>3 DEF Top, Frames, KernelTypes
  <1>5. /\ socket' \in [queue : Seq(Events), err : BOOLEAN, congested : BOOLEAN] /\ lost' \in Nat
        /\ Len(socket'.queue) <= scenario.capacity
        /\ \A i \in DOMAIN socket'.queue : IsDevice(socket'.queue[i].of)
    <2>1. CASE Sends(Event("add", Top.dir, number[Top.dir]))
      BY <1>2, <1>4, <2>1, EventIsTyped, SendsSays
    <2>2. CASE UNCHANGED <<socket, lost>>
      BY <1>2, <2>2 DEF KernelTypes
    <2> QED  BY <1>1, <2>1, <2>2
  <1>6. walk' \in Seq(Frames) /\ \A i \in DOMAIN walk' : walk'[i].must \subseteq present
    <2>1. [walk[1] EXCEPT !.poked = TRUE] \in Frames /\ [walk[1] EXCEPT !.poked = TRUE].must = walk[1].must
      BY <1>3 DEF Frames
    <2>2. walk' = [walk EXCEPT ![1] = [walk[1] EXCEPT !.poked = TRUE]]
      BY <1>1
    <2> QED  BY <1>2, <1>3, <2>1, <2>2 DEF InitTypes
  <1>7. roots' \in Seq(Dirs) /\ rules' \in Seq(Rules) /\ pc' \in {"early", "walk", "drain", "boot", "poll", "handle"}
    BY <1>1, <1>2 DEF InitTypes
  <1> QED  BY <1>1, <1>5, <1>6, <1>7, WalkerTypes

LEMMA ReaddirTypes ==
    ASSUME Types, Readdir, UNCHANGED scenario
    PROVE  Types'
  <1>1. /\ UNCHANGED <<present, number, changes, request, shorts, nodes, loaders, faults, roots, rules, pc, socket, lost>>
        /\ walk # <<>>
    BY DEF Readdir, UnchangedKernel, kernelVars
  <1>2. KernelTypes /\ InitTypes
    BY DEF Types
  <1>3. walk \in Seq(Frames) /\ present \subseteq Dirs /\ \A i \in DOMAIN walk : walk[i].must \subseteq present
    BY <1>2 DEF InitTypes, KernelTypes
  <1>4. walk' \in Seq(Frames) /\ \A i \in DOMAIN walk' : walk'[i].must \subseteq present
    <2>1. ASSUME NEW c \in Children(Top.dir), walk' = Entered(c)
          PROVE  walk' \in Seq(Frames) /\ \A i \in DOMAIN walk' : walk'[i].must \subseteq present
      <3>1. c \in Dirs
        BY <1>3 DEF Children
      <3>2. Entered(c)[1].must \subseteq present
        <4>1. Entered(c)[1] = Frame(c)
          BY <1>1, <1>3, <3>1, EnteredIs
        <4>2. Frame(c).must \subseteq present
          BY <1>3, <3>1, FrameIsTyped
        <4> QED  BY <4>1, <4>2
      <3>3. Entered(c)[2].must \subseteq present
        <4>1. [walk[1] EXCEPT !.seen = @ \union {c}].must = walk[1].must /\ 1 \in DOMAIN walk
          BY <1>1, <1>3, TailFrames DEF Frames
        <4> QED  BY <1>1, <1>3, <3>1, <4>1, EnteredIs
      <3>4. \A i \in DOMAIN Entered(c) : i \notin {1, 2} => Entered(c)[i].must \subseteq present
        BY <1>1, <1>3, <3>1, EnteredIs
      <3>5. Entered(c) \in Seq(Frames)
        BY <1>1, <1>3, <3>1, EnteredIs
      <3> QED  BY <2>1, <3>2, <3>3, <3>4, <3>5
    <2>2. ASSUME walk' = Tail(walk)
          PROVE  walk' \in Seq(Frames) /\ \A i \in DOMAIN walk' : walk'[i].must \subseteq present
      BY <1>1, <1>3, <2>2, TailFrames
    <2> QED  BY <2>1, <2>2 DEF Readdir, Entered
  <1> QED  BY <1>1, <1>2, <1>4, WalkerTypes DEF KernelTypes, InitTypes

LEMMA InitTypesKept ==
    ASSUME Types, init
    PROVE  Types'
  <1>1. UNCHANGED scenario
    BY DEF init
  <1>2. KernelTypes /\ InitTypes
    BY DEF Types
  <1>3. CASE device_init \/ coldboot \/ boot \/ poll
    <2>1. UNCHANGED <<present, number, changes, request, shorts, nodes, loaders, faults, socket, lost>>
      BY <1>3 DEF device_init, coldboot, boot, poll, UnchangedKernel, kernelVars
    <2>2. pc' \in {"early", "walk", "drain", "boot", "poll", "handle"}
      BY <1>2, <1>3 DEF device_init, coldboot, boot, poll, InitTypes
    <2>3. roots' \in Seq(Dirs)
      <3>1. roots \in Seq(Dirs) /\ Roots \in Seq(Dirs) /\ (roots # <<>> => Tail(roots) \in Seq(Dirs))
        BY <1>2, DevicesAssumption DEF InitTypes
      <3>2. roots' = Roots \/ roots' = roots \/ (roots # <<>> /\ roots' = Tail(roots))
        BY <1>3 DEF device_init, coldboot, boot, poll
      <3> QED  BY <3>1, <3>2
    <2>4. rules' \in Seq(Rules)
      <3>1. scenario.partners \in Seq(Rules) /\ scenario.late \in Seq(Rules) /\ rules \in Seq(Rules)
        BY <1>2, DevicesAssumption DEF KernelTypes, InitTypes
      <3>2. rules \o scenario.late \in Seq(Rules)
        BY <3>1
      <3> QED  BY <1>3, <3>1, <3>2 DEF device_init, coldboot, boot, poll
    <2>5. walk' \in Seq(Frames) /\ \A i \in DOMAIN walk' : walk'[i].must \subseteq present
      <3>1. CASE walk' = walk
        BY <1>2, <3>1 DEF InitTypes
      <3>2. CASE roots # <<>> /\ walk' = IF Head(roots) \in present THEN <<Frame(Head(roots))>> ELSE <<>>
        <4>1. Head(roots) \in Dirs /\ present \subseteq Dirs
          BY <1>2, <3>2 DEF InitTypes, KernelTypes
        <4>2. Frame(Head(roots)) \in Frames /\ Frame(Head(roots)).must \subseteq present
          BY <4>1, FrameIsTyped
        <4> QED  BY <3>2, <4>2
      <3> QED  BY <1>3, <3>1, <3>2 DEF device_init, coldboot, boot, poll
    <2> QED  BY <1>1, <1>2, <2>1, <2>2, <2>3, <2>4, <2>5, WalkerTypes DEF KernelTypes
  <1> QED  BY <1>1, <1>3, PokeTypes, ReaddirTypes, RecvTypes DEF init

LEMMA LoaderTypesKept ==
    ASSUME Types, Loader
    PROVE  Types'
  <1>1. UnchangedInit
    BY DEF Loader, OpenFiles, Starts, Copies, Finishes
  <1>2. KernelTypes /\ InitTypes /\ LoaderTypes
    BY DEF Types
  <1>3. KernelTypes'
    BY <1>1, <1>2 DEF UnchangedInit, KernelTypes
  <1>4. InitTypes'
    BY <1>1, <1>2 DEF UnchangedInit, InitTypes
  <1>5. PICK l \in DOMAIN loaders : OpenFiles(l) \/ Starts(l) \/ Copies(l) \/ Finishes(l)
    BY DEF Loader
  <1> DEFINE s == loaders[l]
  <1> DEFINE d == s.of
  <1>6. s \in Loaders /\ IsFiniteSet(DOMAIN loaders) /\ d \in Dirs /\ s.pos \in Nat
    BY <1>2, <1>5 DEF LoaderTypes, Loaders
  <1>7. faults' \in 0..scenario'.faults /\ shorts' \in 0..scenario'.shorts
    BY <1>1, <1>2, <1>5, DevicesAssumption DEF LoaderTypes, KernelTypes, UnchangedInit, OpenFiles, Starts, Copies, Finishes, Fails
  <1>8. /\ request' \in [{x \in present' : IsRequest(x)} -> Requests]
        /\ loaders' \in [DOMAIN loaders' -> Loaders]
        /\ DOMAIN loaders' \subseteq DOMAIN loaders
        /\ \A k \in DOMAIN loaders' : Sound(loaders'[k], DOMAIN request)
    <2>1. present' = present
      BY <1>1 DEF UnchangedInit
    <2>2. request \in [{x \in present : IsRequest(x)} -> Requests]
      BY <1>2 DEF LoaderTypes
    <2>3. Sound(s, DOMAIN request)
      BY <1>2, <1>5 DEF LoaderTypes
    <2>4. \A t \in Loaders : Goes(l, t) /\ Sound(t, DOMAIN request) =>
             /\ loaders' \in [DOMAIN loaders' -> Loaders] /\ DOMAIN loaders' = DOMAIN loaders
             /\ \A k \in DOMAIN loaders' : Sound(loaders'[k], DOMAIN request)
      BY <1>2, <1>5 DEF Goes, LoaderTypes
    <2>5. Exits(l) =>
             /\ loaders' \in [DOMAIN loaders' -> Loaders] /\ DOMAIN loaders' \subseteq DOMAIN loaders
             /\ \A k \in DOMAIN loaders' : Sound(loaders'[k], DOMAIN request)
      BY <1>2, <1>5 DEF Exits, LoaderTypes
    <2>6. ASSUME NEW t \in Stages, s.at # "open", t # "open", Goes(l, [s EXCEPT !.at = t])
          PROVE  <1>8!2 /\ <1>8!3 /\ <1>8!4
      <3> HIDE DEF s
      <3>1. [s EXCEPT !.at = t] \in Loaders
        BY <1>6 DEF Loaders
      <3>2. Sound([s EXCEPT !.at = t], DOMAIN request)
        BY <1>6, <2>3, <2>6 DEF Loaders, Sound
      <3> QED  BY <2>4, <2>6, <3>1, <3>2
    <2>7. \A r \in Requests : d \in DOMAIN request =>
             [request EXCEPT ![d] = r] \in [{x \in present' : IsRequest(x)} -> Requests]
      BY <2>1, <2>2
    <2>8. d \in DOMAIN request => request[d] \in Requests
      BY <2>2
    <2> HIDE DEF s, d
    <2>9. CASE OpenFiles(l)
      <3>1. CASE /\ d \in DOMAIN request /\ Info[d].pages # Null /\ Goes(l, [s EXCEPT !.at = "start"])
                 /\ request' = [request EXCEPT ![d].loaders = @ + 1]
        <4>1. Goes(l, [s EXCEPT !.at = "start"]) /\ request' = [request EXCEPT ![d].loaders = @ + 1] /\ s.at = "open"
          BY <2>9, <3>1 DEF OpenFiles, s
        <4>2. Info[d].pages \in Nat
          <5>1. IsDevice(d)
            BY <2>2, <3>1 DEF IsRequest
          <5>2. Info[d] \in Infos
            BY <1>6, <5>1, DevicesAssumption DEF IsDevice
          <5> QED  BY <3>1, <5>2 DEF Infos
        <4>3. request' \in [{x \in present' : IsRequest(x)} -> Requests]
          <5>1. [request[d] EXCEPT !.loaders = @ + 1] \in Requests
            BY <2>8, <3>1 DEF Requests
          <5> QED  BY <2>7, <3>1, <4>1, <5>1
        <4>4. [s EXCEPT !.at = "start"] \in Loaders
          BY <1>6 DEF Loaders, Stages
        <4>5. Sound([s EXCEPT !.at = "start"], DOMAIN request)
          BY <1>6, <2>3, <3>1, <4>1, <4>2 DEF Sound, Loaders, d
        <4> QED  BY <2>4, <4>1, <4>3, <4>4, <4>5
      <3>2. CASE Exits(l) /\ request' = request
        BY <2>1, <2>2, <2>5, <3>2
      <3> QED  BY <2>9, <3>1, <3>2 DEF OpenFiles, s, d
    <2>10. CASE Starts(l)
      <3>1. /\ Goes(l, [s EXCEPT !.at = "copy"]) /\ s.at = "start"
            /\ request' = [request EXCEPT ![d] = [request[d] EXCEPT !.loading = TRUE, !.data = <<>>]]
        <4>1. request' = [request EXCEPT ![d].loading = TRUE, ![d].data = <<>>]
          BY <2>10 DEF Starts, s, d
        <4> QED  BY <2>10, <4>1 DEF Starts, s, d
      <3>2. d \in DOMAIN request
        BY <2>3, <3>1 DEF Sound, d
      <3>3. [request[d] EXCEPT !.loading = TRUE, !.data = <<>>] \in Requests
        <4>1. request[d] \in Requests /\ <<>> \in Seq(Nat)
          BY <2>8, <3>2
        <4> QED  BY <4>1 DEF Requests
      <3>4. request' \in [{x \in present' : IsRequest(x)} -> Requests]
        BY <2>7, <3>1, <3>2, <3>3
      <3> QED  BY <2>6, <3>1, <3>4 DEF Stages
    <2>11. CASE Copies(l)
      <3>1. s.at = "copy"
        BY <2>11 DEF Copies, s
      <3>2. d \in DOMAIN request /\ s.pos \in Nat /\ Info[d].pages \in Nat
        BY <1>6, <2>3, <3>1 DEF Sound, Loaders, d
      <3>3. ASSUME NEW page \in Nat, s.pos < Info[d].pages,
                   request' = [request EXCEPT ![d].data = Written(@, s.pos, page)], Goes(l, [s EXCEPT !.pos = @ + 1])
            PROVE  <1>8!1 /\ <1>8!2 /\ <1>8!3 /\ <1>8!4
        <4>1. Written(request[d].data, s.pos, page) \in Seq(Nat)
          <5> DEFINE f == request[d].data
          <5>1. f \in Seq(Nat)
            BY <2>8, <3>2 DEF Requests
          <5> HIDE DEF f
          <5>2. \A n \in Nat : n = (IF s.pos < Len(f) THEN Len(f) ELSE s.pos + 1) =>
                   [i \in 1..n |-> IF i = s.pos + 1 THEN page ELSE IF i <= Len(f) THEN f[i] ELSE Junk] \in Seq(Nat)
            BY <5>1 DEF Junk
          <5>3. (IF s.pos < Len(f) THEN Len(f) ELSE s.pos + 1) \in Nat
            BY <3>2, <5>1
          <5> QED  BY <5>2, <5>3 DEF Written, f
        <4>2. [request[d] EXCEPT !.data = Written(@, s.pos, page)] \in Requests
          BY <2>8, <3>2, <4>1 DEF Requests
        <4>3. request' \in [{x \in present' : IsRequest(x)} -> Requests]
          BY <2>7, <3>2, <3>3, <4>2
        <4>4. [s EXCEPT !.pos = @ + 1] \in Loaders /\ Sound([s EXCEPT !.pos = @ + 1], DOMAIN request)
          BY <1>6, <2>3, <3>1, <3>2, <3>3 DEF Loaders, Sound, d
        <4> QED  BY <2>4, <3>3, <4>3, <4>4
      <3>4. ASSUME NEW t \in {"failed", "copied"}, Goes(l, [s EXCEPT !.at = t]), request' = request
            PROVE  <1>8!1 /\ <1>8!2 /\ <1>8!3 /\ <1>8!4
        <4>1. request' \in [{x \in present' : IsRequest(x)} -> Requests]
          BY <2>1, <2>2, <3>4
        <4>2. t \in Stages /\ s.at # "open" /\ t # "open"
          BY <3>1 DEF Stages
        <4> QED  BY <2>6, <3>4, <4>1, <4>2
      <3>5. \/ \E page \in Nat : /\ s.pos < Info[d].pages /\ Goes(l, [s EXCEPT !.pos = @ + 1])
                                /\ request' = [request EXCEPT ![d].data = Written(@, s.pos, page)]
            \/ \E t \in {"failed", "copied"} : Goes(l, [s EXCEPT !.at = t]) /\ request' = request
        <4>1. s.pos + 1 \in Nat /\ Junk \in Nat
          BY <3>2 DEF Junk
        <4> QED  BY <2>11, <4>1 DEF Copies, s, d
      <3> QED  BY <3>3, <3>4, <3>5
    <2>12. CASE Finishes(l)
      <3> DEFINE done == s.at = "copied" /\ request[d].loading
      <3>1. /\ Exits(l) /\ s.at \in {"copied", "failed"}
            /\ request' = [request EXCEPT ![d].loading = FALSE, ![d].completed = TRUE, ![d].aborted = @ \/ ~done]
        BY <2>12 DEF Finishes, s, d
      <3>2. d \in DOMAIN request
        BY <2>3, <3>1 DEF Sound, d
      <3>3. request' = [request EXCEPT ![d] = [request[d] EXCEPT !.loading = FALSE, !.completed = TRUE, !.aborted = @ \/ ~done]]
        BY <3>1, <3>2
      <3>4. [request[d] EXCEPT !.loading = FALSE, !.completed = TRUE, !.aborted = @ \/ ~done] \in Requests
        <4>1. request[d] \in Requests /\ (request[d].aborted \/ ~done) \in BOOLEAN
          BY <2>8, <3>2
        <4> HIDE DEF done
        <4> QED  BY <4>1 DEF Requests
      <3> DEFINE r == [request[d] EXCEPT !.loading = FALSE, !.completed = TRUE, !.aborted = @ \/ ~done]
      <3>5. r \in Requests /\ request' = [request EXCEPT ![d] = r]
        BY <3>3, <3>4
      <3> HIDE DEF r, done
      <3>6. request' \in [{x \in present' : IsRequest(x)} -> Requests]
        BY <2>7, <3>2, <3>5
      <3> QED  BY <2>5, <3>1, <3>6
    <2> QED  BY <1>5, <2>9, <2>10, <2>11, <2>12
  <1>9. LoaderTypes'
    <2>1. IsFiniteSet(DOMAIN loaders')
      BY <1>6, <1>8, FS_Subset
    <2>2. DOMAIN request' = DOMAIN request
      BY <1>1, <1>2, <1>8 DEF UnchangedInit, LoaderTypes
    <2> QED  BY <1>7, <1>8, <2>1, <2>2 DEF LoaderTypes
  <1> QED  BY <1>3, <1>4, <1>9 DEF Types

LEMMA TypesKept == Types /\ [Next]_vars => Types'
  <1> SUFFICES ASSUME Types, [Next]_vars PROVE Types'
    OBVIOUS
  <1>1. CASE UNCHANGED vars
    BY <1>1 DEF vars, kernelVars, Types, KernelTypes, InitTypes, LoaderTypes
  <1> QED  BY <1>1, KernelTypesKept, InitTypesKept, LoaderTypesKept DEF Next

-----------------------------------------------------------------------------
(* The steps, as the invariants see them *)

KernelRest == UNCHANGED <<scenario, pc, roots, rules, nodes, faults, shorts>>

LEMMA RemovesSays ==
    ASSUME Types, NEW d \in Dirs, Unplug(d) \/ Answered(d)
    PROVE  Removes(d) /\ changes' = changes + 1 /\ d \in present /\ Children(d) = {}
  <1>1. CASE Unplug(d)
    BY <1>1 DEF Unplug
  <1>2. CASE Answered(d)
    <2>1. d \in present /\ IsRequest(d) /\ present \subseteq Dirs
      BY <1>2 DEF Answered, Types, LoaderTypes, KernelTypes
    <2>2. Children(d) = {}
      <3>1. \A c \in Dirs : Parent[c] = d => ~IsRequest(d) \/ d = Null
        BY DevicesAssumption
      <3>2. d # Null
        BY DevicesAssumption
      <3> QED  BY <2>1, <3>1, <3>2 DEF Children
    <2> QED  BY <1>2, <2>1, <2>2 DEF Answered
  <1> QED  BY <1>1, <1>2

\* A step of the kernel, by what it does to the directories and the socket.
LEMMA KernelSays ==
    ASSUME Types, Kernel
    PROVE  /\ KernelRest /\ changes' = changes + 1
           /\ \E d \in Dirs, e \in Events :
                /\ e.of = d /\ Sends(e) /\ e.number = number'[d]
                /\ \/ /\ e.action = "add" /\ d \notin present /\ Parent[d] \in present
                      /\ present' = present \union {d} /\ walk' = walk
                      /\ number' \in [Dirs -> Numbers] /\ \A x \in Dirs : x # d => number'[x] = number[x]
                   \/ /\ e.action = "remove" /\ d \in present /\ Children(d) = {}
                      /\ present' = present \ {d} /\ number' = number
                      /\ walk' = [i \in DOMAIN walk |-> [walk[i] EXCEPT !.must = @ \ {d}]]
  <1>1. PICK d \in Dirs : Plug(d) \/ Unplug(d) \/ Answered(d)
    BY DEF Kernel
  <1>2. KernelRest
    BY DEF Kernel, KernelRest
  <1>3. number \in [Dirs -> Numbers]
    BY DEF Types, KernelTypes
  <1>4. CASE Plug(d)
    <2>1. PICK n \in Numbers : number' = [number EXCEPT ![d] = n] /\ Sends(Event("add", d, n))
      BY <1>3, <1>4 DEF Plug
    <2>2. Event("add", d, n) \in Events /\ Event("add", d, n).of = d /\ Event("add", d, n).number = n /\ Event("add", d, n).action = "add"
      BY EventIsTyped
    <2>3. /\ number'[d] = n /\ number' \in [Dirs -> Numbers]
          /\ \A x \in Dirs : x # d => number'[x] = number[x]
      BY <1>3, <2>1
    <2>4. /\ d \notin present /\ Parent[d] \in present /\ present' = present \union {d} /\ walk' = walk
          /\ changes' = changes + 1
      BY <1>4 DEF Plug
    <2> QED  BY <1>2, <2>1, <2>2, <2>3, <2>4
  <1>5. CASE Unplug(d) \/ Answered(d)
    <2>1. Removes(d) /\ changes' = changes + 1 /\ d \in present /\ Children(d) = {}
      BY <1>5, RemovesSays
    <2>2. /\ Sends(Event("remove", d, number[d])) /\ number' = number /\ present' = present \ {d}
          /\ walk' = [i \in DOMAIN walk |-> [walk[i] EXCEPT !.must = @ \ {d}]]
      BY <2>1 DEF Removes
    <2>3. LET e == Event("remove", d, number[d])
          IN  e \in Events /\ e.of = d /\ e.number = number[d] /\ e.action = "remove"
      BY <1>3, EventIsTyped
    <2> QED  BY <1>2, <2>1, <2>2, <2>3
  <1> QED  BY <1>1, <1>4, <1>5

\* A turn of the loop that receives: the socket fails, or an event is handled.
Handled(e) ==
    /\ ~socket.err /\ socket.queue # <<>> /\ e = Head(socket.queue) /\ IsDevice(e.of)
    /\ socket'.queue = Tail(socket.queue) /\ ~socket'.err /\ (socket'.congested => socket.congested)
    /\ pc' = pc
    /\ nodes' = IF ~Makes(e.of) THEN nodes
                ELSE IF e.action = "add" THEN make_device(e.of, e.number) ELSE Without(nodes, devpath(e.of))
Drained ==
    /\ socket.err \/ socket.queue = <<>>
    /\ socket'.queue = socket.queue /\ ~socket'.err /\ socket'.congested = socket.congested
    /\ nodes' = nodes /\ pc' = IF pc = "drain" THEN "walk" ELSE "poll"

LEMMA RecvSays ==
    ASSUME Types, Recv
    PROVE  /\ UNCHANGED <<present, number, changes, lost, roots, walk, rules>> /\ pc \in {"drain", "handle"}
           /\ Drained \/ \E e \in Events : Handled(e)
  <1>1. UNCHANGED <<present, number, changes, lost, roots, walk, rules>> /\ pc \in {"drain", "handle"}
    BY DEF Recv, UnchangedKernel, kernelVars
  <1>2. /\ socket \in [queue : Seq(Events), err : BOOLEAN, congested : BOOLEAN]
        /\ \A i \in DOMAIN socket.queue : IsDevice(socket.queue[i].of)
    BY DEF Types, KernelTypes
  <1>3. CASE socket.err \/ socket.queue = <<>>
    <2>1. /\ socket' = [socket EXCEPT !.err = FALSE] /\ pc' = IF pc = "drain" THEN "walk" ELSE "poll"
          /\ nodes' = nodes
      BY <1>3 DEF Recv
    <2>2. socket'.queue = socket.queue /\ ~socket'.err /\ socket'.congested = socket.congested
      BY <1>2, <2>1
    <2>3. Drained
      BY <1>3, <2>1, <2>2 DEF Drained
    <2> QED  BY <1>1, <2>3
  <1>4. CASE ~(socket.err \/ socket.queue = <<>>)
    <2> DEFINE e == Head(socket.queue)
    <2> DEFINE r == Tail(socket.queue)
    <2>1. /\ socket' = [socket EXCEPT !.queue = r, !.congested = @ /\ r # <<>>] /\ pc' = pc
          /\ IF Info[e.of].long THEN UNCHANGED <<nodes, loaders, faults>>
             ELSE nodes' = handle_device_event(e) /\ handle_firmware_event(e)
      BY <1>4 DEF Recv
    <2>2. e \in Events /\ IsDevice(e.of)
      <3>1. socket.queue \in Seq(Events) /\ socket.queue # <<>>
        BY <1>2, <1>4
      <3>2. e = socket.queue[1] /\ 1 \in DOMAIN socket.queue
        BY <3>1
      <3> HIDE DEF Events, e
      <3> QED  BY <1>2, <3>1, <3>2
    <2>3. /\ socket'.queue = r /\ socket'.err = socket.err /\ socket'.congested = (socket.congested /\ r # <<>>)
      <3> HIDE DEF r
      <3> QED  BY <1>2, <2>1
    <2>4. e.action \in {"add", "remove"}
      BY <2>2 DEF Events
    <2>5. CASE Info[e.of].long
      <3>1. ~Makes(e.of) /\ nodes' = nodes
        BY <2>1, <2>5 DEF Makes
      <3>2. Handled(e)
        BY <1>4, <2>1, <2>2, <2>3, <3>1 DEF Handled
      <3> QED  BY <1>1, <2>2, <3>2
    <2>6. CASE ~Info[e.of].long
      <3>1. nodes' = IF ~Makes(e.of) THEN nodes
                     ELSE IF e.action = "add" THEN make_device(e.of, e.number) ELSE Without(nodes, devpath(e.of))
        <4>1. Makes(e.of) <=> Info[e.of].numbered
          BY <2>2, <2>6 DEF Makes
        <4>2. nodes' = handle_device_event(e)
          BY <2>1, <2>6
        <4> QED  BY <4>1, <4>2 DEF handle_device_event
      <3>2. Handled(e)
        BY <1>4, <2>1, <2>2, <2>3, <3>1 DEF Handled
      <3> QED  BY <1>1, <2>2, <3>2
    <2> QED  BY <2>5, <2>6
  <1> QED  BY <1>3, <1>4

\* A loader does not touch what the invariants on the nodes are about.
NodeVars == <<scenario, present, number, changes, socket, lost, pc, roots, walk, rules, nodes>>
LEMMA LoaderSays ==
    ASSUME Loader
    PROVE  UNCHANGED NodeVars
  BY DEF Loader, OpenFiles, Starts, Copies, Finishes, UnchangedInit, NodeVars

-----------------------------------------------------------------------------
(* The walk never makes init miss an event *)

LEMMA KeepsUpKept ==
    ASSUME Types, KeepsUp, [Next]_vars
    PROVE  KeepsUp'
  <1>1. /\ socket \in [queue : Seq(Events), err : BOOLEAN, congested : BOOLEAN] /\ lost \in Nat /\ changes \in Nat
        /\ scenario.capacity \in Nat \ {0}
    BY DevicesAssumption DEF Types, KernelTypes
  <1>2. Len(socket.queue) \in Nat
    <2>1. socket.queue \in Seq(Events)
      BY <1>1
    <2> HIDE DEF Events
    <2> QED  BY <2>1
  <1>3. CASE UNCHANGED <<scenario, changes, socket, lost, pc>>
    BY <1>3 DEF KeepsUp
  <1>4. CASE Kernel
    <2>1. KernelRest /\ changes' = changes + 1 /\ \E e \in Events : Sends(e)
      BY <1>4, KernelSays
    <2>2. PICK e \in Events : Sends(e)
      BY <2>1
    <2>3. /\ Len(socket'.queue) <= Len(socket.queue) + 1 /\ lost' \in Nat
          /\ Len(socket.queue) < scenario.capacity /\ ~socket.congested => lost' = lost
          /\ lost' = 0 => lost = 0
          /\ lost' = 0 /\ ~socket.err /\ ~socket.congested => ~socket'.err /\ ~socket'.congested
          /\ pc = "early" => socket' = socket /\ lost' = lost
      BY <2>2, SendsSays DEF Types
    <2>4. Len(socket'.queue) \in Nat
      <3>1. socket'.queue \in Seq(Events)
        BY <2>2, SendsSays DEF Types
      <3> HIDE DEF Events
      <3> QED  BY <3>1
    <2> QED  BY <1>1, <1>2, <2>1, <2>3, <2>4 DEF KeepsUp, KernelRest
  <1>5. CASE init
    <2>1. scenario' = scenario
      BY <1>5 DEF init
    <2>2. CASE device_init
      <3>1. UNCHANGED <<changes, socket, lost>> /\ pc = "early" /\ pc' = "walk"
        BY <2>2 DEF device_init, UnchangedKernel, kernelVars
      <3>2. socket.queue = <<>> /\ lost = 0 /\ Len(<<>>) = 0
        BY <3>1 DEF KeepsUp
      <3> QED  BY <1>1, <2>1, <3>1, <3>2 DEF KeepsUp
    <2>3. CASE coldboot \/ Readdir \/ boot \/ poll
      <3>1. UNCHANGED <<changes, socket, lost>> /\ pc # "early" /\ (pc' = pc \/ pc' \notin {"early", "walk", "drain"})
        BY <2>3 DEF coldboot, Readdir, boot, poll, UnchangedKernel, kernelVars
      <3> QED  BY <2>1, <3>1 DEF KeepsUp
    <2>4. CASE Poke
      <3>1. /\ changes' = changes /\ pc = "walk"
            /\ \/ UNCHANGED <<pc, socket, lost>>
               \/ pc' = "drain" /\ Sends(Event("add", Top.dir, number[Top.dir]))
        BY <2>4 DEF Poke, UnchangedKernel, kernelVars
      <3>2. CASE UNCHANGED <<pc, socket, lost>>
        BY <1>3, <2>1, <3>1, <3>2
      <3>3. CASE pc' = "drain" /\ Sends(Event("add", Top.dir, number[Top.dir]))
        <4>1. Event("add", Top.dir, number[Top.dir]) \in Events
          <5>1. walk # <<>> /\ walk \in Seq(Frames) /\ number \in [Dirs -> Numbers]
            BY <2>4 DEF Poke, Types, InitTypes, KernelTypes
          <5>2. Top.dir \in Dirs
            BY <5>1, TailFrames DEF Top, Frames
          <5> QED  BY <5>1, <5>2, EventIsTyped
        <4>2. /\ Len(socket'.queue) <= Len(socket.queue) + 1 /\ lost' \in Nat
              /\ Len(socket.queue) < scenario.capacity /\ ~socket.congested => lost' = lost
              /\ lost' = 0 => lost = 0
              /\ lost' = 0 /\ ~socket.err /\ ~socket.congested => ~socket'.err /\ ~socket'.congested
              /\ socket' \in [queue : Seq(Events), err : BOOLEAN, congested : BOOLEAN]
          BY <3>3, <4>1, SendsSays DEF Types
        <4>3. Len(socket'.queue) \in Nat
          <5>1. socket'.queue \in Seq(Events)
            BY <4>2
          <5> HIDE DEF Events
          <5> QED  BY <5>1
        <4> QED  BY <1>1, <1>2, <2>1, <3>1, <3>3, <4>2, <4>3 DEF KeepsUp
      <3> QED  BY <3>1, <3>2, <3>3
    <2>5. CASE Recv
      <3>1. UNCHANGED <<changes, lost>> /\ pc \in {"drain", "handle"} /\ (Drained \/ \E e \in Events : Handled(e))
        BY <2>5, RecvSays DEF Types
      <3>2. CASE Drained
        <4>1. Len(<<>>) = 0
          OBVIOUS
        <4> QED  BY <1>1, <2>1, <3>1, <3>2, <4>1 DEF Drained, KeepsUp
      <3>3. CASE \E e \in Events : Handled(e)
        <4>1. PICK e \in Events : Handled(e)
          BY <3>3
        <4>2. Len(socket'.queue) = Len(socket.queue) - 1
          <5>1. socket.queue \in Seq(Events) /\ socket.queue # <<>> /\ socket'.queue = Tail(socket.queue)
            BY <1>1, <4>1 DEF Handled
          <5> HIDE DEF Events
          <5> QED  BY <5>1
        <4> QED  BY <1>1, <1>2, <2>1, <3>1, <4>1, <4>2 DEF Handled, KeepsUp
      <3> QED  BY <3>1, <3>2, <3>3
    <2> QED  BY <1>5, <2>2, <2>3, <2>4, <2>5 DEF init
  <1>6. CASE Loader
    BY <1>3, <1>6, LoaderSays DEF NodeVars
  <1>7. CASE UNCHANGED vars
    BY <1>3, <1>7 DEF vars, kernelVars
  <1> QED  BY <1>4, <1>5, <1>6, <1>7 DEF Next

-----------------------------------------------------------------------------
(* The walk *)

LEMMA WalkKept ==
    ASSUME Types, WalkInv, KeepsUp, [Next]_vars
    PROVE  WalkInv'
  <1>1. walk \in Seq(Frames) /\ present \subseteq Dirs
    BY DEF Types, InitTypes, KernelTypes
  <1>2. CASE UNCHANGED NodeVars
    BY <1>2 DEF WalkInv, Rooted, NodeVars
  <1>3. CASE Kernel
    <2>1. KernelRest
      BY <1>3, KernelSays
    <2>2. PICK d \in Dirs, e \in Events :
            /\ Sends(e)
            /\ \/ /\ Parent[d] \in present /\ present' = present \union {d} /\ walk' = walk
               \/ /\ d \in present /\ Children(d) = {} /\ present' = present \ {d}
                  /\ walk' = [i \in DOMAIN walk |-> [walk[i] EXCEPT !.must = @ \ {d}]]
      BY <1>3, KernelSays
    <2>3. pc = "early" => socket' = socket
      BY <2>2, SendsSays DEF Types
    <2>4. Rooted'
      BY <2>2 DEF WalkInv, Rooted, Children
    <2>5. DOMAIN walk' = DOMAIN walk /\ \A i \in DOMAIN walk : walk'[i].poked = walk[i].poked
      <3>1. CASE walk' = walk
        BY <3>1
      <3>2. CASE walk' = [i \in DOMAIN walk |-> [walk[i] EXCEPT !.must = @ \ {d}]]
        <4>1. \A i \in DOMAIN walk : walk[i] \in Frames
          BY <1>1
        <4>2. \A i \in DOMAIN walk : [walk[i] EXCEPT !.must = @ \ {d}].poked = walk[i].poked
          BY <4>1 DEF Frames
        <4> QED  BY <3>2, <4>2
      <3> QED  BY <2>2, <3>1, <3>2
    <2>6. walk = <<>> <=> walk' = <<>>
      <3>1. walk' \in Seq(Frames)
        BY <1>3, KernelTypesKept DEF Types, InitTypes
      <3>2. (walk = <<>> <=> DOMAIN walk = {}) /\ (walk' = <<>> <=> DOMAIN walk' = {})
        BY <1>1, <3>1
      <3> QED  BY <2>5, <3>2
    <2>7. walk # <<>> => 1 \in DOMAIN walk
      BY <1>1
    <2> QED  BY <2>1, <2>3, <2>4, <2>5, <2>6, <2>7 DEF WalkInv, KernelRest
  <1>4. CASE init
    <2>1. CASE device_init
      BY <2>1 DEF device_init, UnchangedKernel, kernelVars, WalkInv, Rooted
    <2>2. CASE coldboot
      <3>1. /\ UNCHANGED <<present, socket, nodes>> /\ pc = "walk" /\ walk = <<>>
            /\ \/ pc' = "boot" /\ roots = <<>> /\ roots' = <<>> /\ walk' = <<>>
               \/ pc' = pc /\ (walk' = <<>> \/ walk' = <<Frame(Head(roots))>>)
        BY <2>2 DEF coldboot, UnchangedKernel, kernelVars
      <3>2. DOMAIN walk' \subseteq {1}
        BY <3>1
      <3>3. Rooted'
        BY <3>1 DEF WalkInv, Rooted
      <3> QED  BY <3>1, <3>2, <3>3 DEF WalkInv
    <2>3. CASE Poke
      <3>1. /\ UNCHANGED <<present, nodes, roots>> /\ pc = "walk" /\ walk # <<>> /\ pc' \in {"walk", "drain"}
            /\ walk' = [walk EXCEPT ![1].poked = TRUE]
        BY <2>3 DEF Poke, UnchangedKernel, kernelVars
      <3>2. 1 \in DOMAIN walk /\ walk[1] \in Frames
        BY <1>1, <3>1
      <3>3. /\ DOMAIN walk' = DOMAIN walk /\ walk'[1] = [walk[1] EXCEPT !.poked = TRUE]
            /\ \A i \in DOMAIN walk : i # 1 => walk'[i] = walk[i]
        BY <3>1, <3>2
      <3>4. walk'[1].poked
        BY <3>2, <3>3 DEF Frames
      <3>5. walk' # <<>>
        BY <3>2, <3>3
      <3>6. Rooted'
        BY <3>1 DEF WalkInv, Rooted
      <3> QED  BY <3>1, <3>3, <3>4, <3>5, <3>6 DEF WalkInv
    <2>4. CASE Readdir
      <3>1. /\ UNCHANGED <<present, nodes, roots, pc, socket>> /\ pc = "walk" /\ walk # <<>> /\ Top.poked
            /\ \/ \E c \in Children(Top.dir) : walk' = Entered(c)
               \/ walk' = Tail(walk)
        BY <2>4 DEF Readdir, Entered, UnchangedKernel, kernelVars
      <3>2. \A i \in DOMAIN walk' : i # 1 => walk'[i].poked
        <4>1. \A i \in DOMAIN walk : walk[i].poked
          BY <3>1 DEF WalkInv, Top
        <4>2. CASE walk' = Tail(walk)
          BY <1>1, <3>1, <4>1, <4>2, TailFrames
        <4>3. ASSUME NEW c \in Children(Top.dir), walk' = Entered(c)
              PROVE  \A i \in DOMAIN walk' : i # 1 => walk'[i].poked
          <5>1. c \in Dirs
            BY <1>1 DEF Children
          <5>2. /\ Entered(c)[2] = [walk[1] EXCEPT !.seen = @ \union {c}] /\ 1 \in DOMAIN walk
                /\ \A i \in DOMAIN Entered(c) : i \notin {1, 2} => i - 1 \in DOMAIN walk /\ Entered(c)[i] = walk[i - 1]
            BY <1>1, <3>1, <5>1, EnteredIs, TailFrames
          <5>3. Entered(c)[2].poked
            <6>1. walk[1] \in Frames /\ walk[1].poked
              BY <1>1, <4>1, <5>2
            <6> QED  BY <5>2, <6>1 DEF Frames
          <5> QED  BY <4>1, <4>3, <5>2, <5>3
        <4> QED  BY <3>1, <4>2, <4>3
      <3>3. Rooted'
        BY <3>1 DEF WalkInv, Rooted
      <3> QED  BY <3>1, <3>2, <3>3 DEF WalkInv
    <2>5. CASE Recv
      <3>1. UNCHANGED <<present, roots, walk>> /\ pc \in {"drain", "handle"} /\ (pc' = pc \/ pc' = IF pc = "drain" THEN "walk" ELSE "poll")
        BY <2>5, RecvSays DEF Types, Drained, Handled
      <3>2. Rooted'
        BY <3>1 DEF WalkInv, Rooted
      <3> QED  BY <3>1, <3>2 DEF WalkInv
    <2>6. CASE boot \/ poll
      BY <2>6 DEF boot, poll, UnchangedKernel, kernelVars, WalkInv, Rooted
    <2> QED  BY <1>4, <2>1, <2>2, <2>3, <2>4, <2>5, <2>6 DEF init
  <1>5. CASE Loader
    BY <1>2, <1>5, LoaderSays
  <1>6. CASE UNCHANGED vars
    BY <1>2, <1>6 DEF vars, kernelVars, NodeVars
  <1> QED  BY <1>3, <1>4, <1>5, <1>6 DEF Next

-----------------------------------------------------------------------------
(* What a node says besides its number *)

LEMMA PermKept ==
    ASSUME UNCHANGED <<scenario, rules>>, NEW p
    PROVE  get_device_perm(p)' = get_device_perm(p)
  BY DEF get_device_perm, qemu_perms

\* The nodes after a device is made.
Made(d, n) ==
    LET p == devpath(d)
        rule == get_device_perm(p)
    IN  IF p \in DOMAIN nodes THEN [nodes[p] EXCEPT !.owner = rule.owner]
        ELSE [number |-> n, block |-> Info[d].subsystem = "block", mode |-> rule.mode, owner |-> rule.owner]

LEMMA MadeIs ==
    ASSUME NEW d, NEW n
    PROVE  /\ n > 255 => make_device(d, n) = nodes
           /\ ~(n > 255) =>
                /\ DOMAIN make_device(d, n) = DOMAIN nodes \union {devpath(d)}
                /\ make_device(d, n)[devpath(d)] = Made(d, n)
                /\ \A x \in DOMAIN nodes : x # devpath(d) => make_device(d, n)[x] = nodes[x]
  <1> DEFINE p == devpath(d)
  <1>1. ~(n > 255) => make_device(d, n) = [x \in DOMAIN nodes \union {p} |-> IF x = p THEN Made(d, n) ELSE nodes[x]]
    BY DEF make_device, Made
  <1> HIDE DEF p
  <1>2. ~(n > 255) =>
                /\ DOMAIN make_device(d, n) = DOMAIN nodes \union {p}
                /\ make_device(d, n)[p] = Made(d, n)
                /\ \A x \in DOMAIN nodes : x # p => make_device(d, n)[x] = nodes[x]
    BY <1>1
  <1> QED  BY <1>2 DEF make_device, p

LEMMA MadeSays ==
    ASSUME NEW d \in Dirs, NEW n \in Nat, \A p \in DOMAIN nodes : DOMAIN nodes[p] = NodeFields
    PROVE  LET p == devpath(d) IN
           /\ Made(d, n).owner = get_device_perm(p).owner
           /\ Made(d, n).number = IF p \in DOMAIN nodes THEN nodes[p].number ELSE n
           /\ Made(d, n).block = IF p \in DOMAIN nodes THEN nodes[p].block ELSE (Info[d].subsystem = "block")
           /\ Made(d, n).mode = IF p \in DOMAIN nodes THEN nodes[p].mode ELSE get_device_perm(p).mode
  <1> DEFINE p == devpath(d)
  <1> DEFINE rule == get_device_perm(p)
  <1>1. CASE p \in DOMAIN nodes
    <2>1. Made(d, n) = [nodes[p] EXCEPT !.owner = rule.owner] /\ DOMAIN nodes[p] = NodeFields
      BY <1>1 DEF Made
    <2> HIDE DEF p, rule
    <2>2. /\ Made(d, n).owner = rule.owner /\ Made(d, n).number = nodes[p].number /\ Made(d, n).block = nodes[p].block
          /\ Made(d, n).mode = nodes[p].mode
      BY <2>1 DEF NodeFields
    <2> QED  BY <1>1, <2>2 DEF p, rule
  <1>2. CASE p \notin DOMAIN nodes
    <2>1. Made(d, n) = [number |-> n, block |-> Info[d].subsystem = "block", mode |-> rule.mode, owner |-> rule.owner]
      BY <1>2 DEF Made
    <2> HIDE DEF p, rule
    <2>2. /\ Made(d, n).owner = rule.owner /\ Made(d, n).number = n /\ Made(d, n).block = (Info[d].subsystem = "block")
          /\ Made(d, n).mode = rule.mode
      BY <2>1
    <2> QED  BY <1>2, <2>2 DEF p, rule
  <1> QED  BY <1>1, <1>2

LEMMA RightsKept ==
    ASSUME Types, WalkInv, RightsInv, [Next]_vars
    PROVE  RightsInv'
  <1>1. CASE UNCHANGED <<scenario, rules, nodes>>
    <2>1. \A p : get_device_perm(p)' = get_device_perm(p)
      BY <1>1, PermKept
    <2>2. Alone' = Alone /\ \A d : devpath(d)' = devpath(d) /\ Makes(d)' = Makes(d)
      BY DEF Alone, devpath, BaseOf, IsLog, Makes, InTrees, IsDevice
    <2> QED  BY <1>1, <2>1, <2>2 DEF RightsInv
  <1>2. CASE init
    <2>1. scenario' = scenario /\ scenario \in Scenarios
      BY <1>2 DEF init, Types, KernelTypes
    <2>2. CASE device_init
      <3>1. nodes' = nodes /\ DOMAIN nodes = {}
        BY <2>2 DEF device_init, WalkInv
      <3> QED  BY <3>1 DEF RightsInv
    <2>3. CASE coldboot \/ Poke \/ Readdir \/ poll
      <3>1. UNCHANGED <<rules, nodes>>
        BY <2>3 DEF coldboot, Poke, Readdir, poll
      <3> QED  BY <1>1, <2>1, <3>1
    <2>4. CASE boot
      <3>1. nodes' = nodes /\ rules' = rules \o scenario.late /\ rules \in Seq(Rules)
        BY <2>4 DEF boot, Types, InitTypes
      <3>2. CASE scenario.late = <<>>
        <4>1. rules' = rules
          BY <3>1, <3>2, ConcatEmptySeq
        <4> QED  BY <1>1, <2>1, <3>1, <4>1
      <3>3. CASE scenario.late # <<>>
        BY <2>1, <3>1, <3>3 DEF RightsInv
      <3> QED  BY <3>2, <3>3
    <2>5. CASE Recv
      <3>1. rules' = rules /\ (nodes' = nodes \/ \E e \in Events : Handled(e))
        BY <2>5, RecvSays DEF Types, Drained
      <3>2. ASSUME NEW e \in Events, Handled(e) PROVE RightsInv'
        <4> DEFINE d == e.of
        <4> DEFINE p == devpath(d)
        <4>1. \A x : get_device_perm(x)' = get_device_perm(x)
          BY <2>1, <3>1, PermKept
        <4>2. d \in Dirs /\ e.number \in Nat
          BY DevicesAssumption DEF Events
        <4>3. CASE ~Makes(d)
          BY <1>1, <2>1, <3>1, <3>2, <4>3 DEF Handled
        <4>4. CASE Makes(d) /\ e.action # "add"
          <5>1. nodes' = Without(nodes, p)
            BY <3>2, <4>4 DEF Handled
          <5> HIDE DEF p, d
          <5>2. DOMAIN nodes' \subseteq DOMAIN nodes /\ \A x \in DOMAIN nodes' : nodes'[x] = nodes[x]
            BY <5>1 DEF Without
          <5>3. \A x \in DOMAIN nodes' :
                  /\ x \in {devpath(z) : z \in {y \in Dirs : Makes(y)}}
                  /\ nodes'[x].number <= 255
                  /\ scenario.late = <<>> => nodes'[x].mode = get_device_perm(x).mode /\ nodes'[x].owner = get_device_perm(x).owner
            BY <5>2 DEF RightsInv
          <5>4. \A z \in Alone : devpath(z) \in DOMAIN nodes' => nodes'[devpath(z)].block = (Info[z].subsystem = "block")
            BY <5>2 DEF RightsInv
          <5> QED  BY <2>1, <4>1, <5>3, <5>4 DEF RightsInv
        <4>5. CASE Makes(d) /\ e.action = "add"
          <5>1. nodes' = make_device(d, e.number)
            BY <3>2, <4>5 DEF Handled
          <5>2. CASE e.number > 255
            BY <1>1, <2>1, <3>1, <5>1, <5>2, MadeIs
          <5>3. CASE ~(e.number > 255)
            <6>1. /\ DOMAIN nodes' = DOMAIN nodes \union {p} /\ nodes'[p] = Made(d, e.number)
                  /\ \A x \in DOMAIN nodes : x # p => nodes'[x] = nodes[x]
              BY <5>1, <5>3, MadeIs
            <6>2. /\ Made(d, e.number).owner = get_device_perm(p).owner
                  /\ Made(d, e.number).number = IF p \in DOMAIN nodes THEN nodes[p].number ELSE e.number
                  /\ Made(d, e.number).block = IF p \in DOMAIN nodes THEN nodes[p].block ELSE (Info[d].subsystem = "block")
                  /\ Made(d, e.number).mode = IF p \in DOMAIN nodes THEN nodes[p].mode ELSE get_device_perm(p).mode
              BY <4>2, MadeSays DEF Types, InitTypes
            <6>3. p \in {devpath(z) : z \in {y \in Dirs : Makes(y)}}
              BY <4>2, <4>5
            <6>4. \A z \in Alone : devpath(z) = p => z = d
              BY <4>2, <4>5 DEF Alone
            <6> HIDE DEF p, d
            <6>5. \A x \in DOMAIN nodes' :
                    /\ x \in {devpath(z) : z \in {y \in Dirs : Makes(y)}}
                    /\ nodes'[x].number <= 255
                    /\ scenario.late = <<>> => nodes'[x].mode = get_device_perm(x).mode /\ nodes'[x].owner = get_device_perm(x).owner
              BY <4>2, <5>3, <6>1, <6>2, <6>3 DEF RightsInv
            <6>6. \A z \in Alone : devpath(z) \in DOMAIN nodes' => nodes'[devpath(z)].block = (Info[z].subsystem = "block")
              <7> TAKE z \in Alone
              <7> HAVE devpath(z) \in DOMAIN nodes'
              <7>1. CASE devpath(z) = p
                <8>1. z = d
                  BY <6>4, <7>1
                <8>2. p \in DOMAIN nodes => nodes[p].block = (Info[d].subsystem = "block")
                  BY <7>1, <8>1 DEF RightsInv
                <8> QED  BY <6>1, <6>2, <7>1, <8>1, <8>2
              <7>2. CASE devpath(z) # p
                BY <6>1, <7>2 DEF RightsInv
              <7> QED  BY <7>1, <7>2
            <6> QED  BY <2>1, <4>1, <6>5, <6>6 DEF RightsInv
          <5> QED  BY <5>2, <5>3
        <4> QED  BY <4>3, <4>4, <4>5
      <3> QED  BY <1>1, <2>1, <3>1, <3>2
    <2> QED  BY <1>2, <2>2, <2>3, <2>4, <2>5 DEF init
  <1>3. CASE Kernel
    BY <1>1, <1>3 DEF Kernel
  <1>4. CASE Loader
    BY <1>1, <1>4, LoaderSays DEF NodeVars
  <1>5. CASE UNCHANGED vars
    BY <1>1, <1>5 DEF vars
  <1> QED  BY <1>2, <1>3, <1>4, <1>5 DEF Next

-----------------------------------------------------------------------------
(* What is below a set of directories *)

LEMMA UnderMore ==
    ASSUME NEW P, NEW S, NEW T, S \subseteq T
    PROVE  Under(S, P) \subseteq Under(T, P)
  BY DEF Under

\* One level down: what is below a directory is it, or below what is in it.
LEMMA UnderDown ==
    ASSUME NEW P, NEW S, NEW T, NEW c, S \subseteq T \union {c}, \A x \in P : Parent[x] = c => x \in T,
           NEW d \in Under(S, P), d # c
    PROVE  d \in Under(T, P)
  <1>1. d \in P
    BY DEF Under
  <1>2. ASSUME NEW C \in SUBSET P, T \intersect P \subseteq C, \A x \in P : Parent[x] \in C => x \in C
        PROVE  d \in C
    <2> DEFINE K == C \union ({c} \intersect P)
    <2>1. K \in SUBSET P /\ S \intersect P \subseteq K /\ \A x \in P : Parent[x] \in K => x \in K
      BY <1>2
    <2>2. d \in K
      BY <2>1 DEF Under
    <2> QED  BY <2>2
  <1> QED  BY <1>1, <1>2 DEF Under

LEMMA UnderGrows ==
    ASSUME NEW P, NEW Q, P \subseteq Q, NEW S, NEW d \in Under(S, P)
    PROVE  d \in Under(S, Q)
  <1>1. d \in Q
    BY DEF Under
  <1>2. ASSUME NEW C \in SUBSET Q, S \intersect Q \subseteq C, \A x \in Q : Parent[x] \in C => x \in C
        PROVE  d \in C
    <2> DEFINE K == {x \in P : x \in C}
    <2>1. K \in SUBSET P /\ S \intersect P \subseteq K /\ \A x \in P : Parent[x] \in K => x \in K
      BY <1>2
    <2>2. d \in K
      BY <2>1 DEF Under
    <2> QED  BY <2>2
  <1> QED  BY <1>1, <1>2 DEF Under

LEMMA UnderShrinks ==
    ASSUME NEW P, NEW S, NEW T, NEW r, \A x \in P : Parent[x] # r, S \subseteq T \union {r},
           NEW d \in Under(S, P), d # r
    PROVE  d \in Under(T, P \ {r})
  <1>1. d \in P \ {r}
    BY DEF Under
  <1>2. ASSUME NEW C \in SUBSET (P \ {r}), T \intersect (P \ {r}) \subseteq C,
               \A x \in P \ {r} : Parent[x] \in C => x \in C
        PROVE  d \in C
    <2> DEFINE K == C \union ({r} \intersect P)
    <2>1. K \in SUBSET P /\ S \intersect P \subseteq K /\ \A x \in P : Parent[x] \in K => x \in K
      BY <1>2
    <2>2. d \in K
      BY <2>1 DEF Under
    <2> QED  BY <2>2
  <1> QED  BY <1>1, <1>2 DEF Under

LEMMA UnderNone ==
    ASSUME NEW P
    PROVE  Under({}, P) = {}
  <1>1. ASSUME NEW d \in Under({}, P) PROVE FALSE
    <2>1. {} \in SUBSET P /\ {} \intersect P \subseteq {} /\ \A x \in P : Parent[x] \in {} => x \in {}
      OBVIOUS
    <2> QED  BY <1>1, <2>1 DEF Under
  <1> QED  BY <1>1

\* While sysfs is a tree, what is in the trees and there is below their roots.
LEMMA TreesAreUnder ==
    ASSUME Rooted, present \subseteq Dirs, NEW d \in InTrees, d \in present
    PROVE  d \in Under({Roots[i] : i \in DOMAIN Roots}, present)
  <1> DEFINE R == {Roots[i] : i \in DOMAIN Roots}
  <1>1. \A C \in SUBSET Dirs : R \subseteq C /\ (\A x \in Dirs : Parent[x] \in C => x \in C) => d \in C
    BY DEF InTrees
  <1>2. R \subseteq Dirs
    BY DevicesAssumption
  <1>3. \A x \in Dirs : Parent[x] \in Dirs \union {Null}
    BY DevicesAssumption
  <1>4. Null \notin Dirs
    BY DevicesAssumption
  <1> HIDE DEF R
  <1>5. ASSUME NEW C \in SUBSET present, R \intersect present \subseteq C, \A x \in present : Parent[x] \in C => x \in C
        PROVE  d \in C
    <2> DEFINE K == C \union (Dirs \ present)
    <2>1. \A x \in Dirs : Parent[x] \in K => x \in K
      <3> SUFFICES ASSUME NEW x \in present, Parent[x] \in K PROVE x \in C
        BY <1>5
      <3>1. Parent[x] \in present
        BY <1>4, <1>5 DEF Rooted
      <3> QED  BY <1>5, <3>1
    <2>2. K \in SUBSET Dirs /\ R \subseteq K
      BY <1>2, <1>5
    <2>3. d \in K
      BY <1>1, <2>1, <2>2
    <2> QED  BY <2>3
  <1> QED  BY <1>5 DEF Under, R

-----------------------------------------------------------------------------
(* What is queued of a device *)

\* An event about another device, or none, changes nothing.
LEMMA ToldSame ==
    ASSUME socket'.queue = socket.queue, NEW d, d \in present' <=> d \in present, number'[d] = number[d],
           devpath(d) \in DOMAIN nodes' <=> devpath(d) \in DOMAIN nodes,
           devpath(d) \in DOMAIN nodes => nodes'[devpath(d)].number = nodes[devpath(d)].number
    PROVE  Of(d)' = Of(d) /\ (Told(d) => Told(d)')
  <1>1. Of(d)' = Of(d)
    BY DEF Of
  <1>2. devpath(d)' = devpath(d) /\ HasNode(d)' = HasNode(d)
    BY DEF devpath, BaseOf, IsLog, HasNode, Makes, IsDevice
  <1>3. LastIsNow(d) => LastIsNow(d)'
    BY <1>1 DEF LastIsNow, IsLast
  <1>4. Chained(d) => Chained(d)'
    BY <1>1 DEF Chained
  <1>5. \A n : Fits(d, n) => Fits(d, n)'
    BY <1>2 DEF Fits
  <1>6. FirstFits(d) => FirstFits(d)'
    BY <1>1, <1>5 DEF FirstFits, IsFirst
  <1>7. Shown(d) => Shown(d)'
    <2>1. Fits(d, number[d]) => Fits(d, number[d])'
      BY <1>5
    <2> QED  BY <1>1, <1>2, <2>1 DEF Shown, Fits
  <1> QED  BY <1>1, <1>3, <1>4, <1>6, <1>7 DEF Told

LEMMA QueueAppend ==
    ASSUME socket.queue \in Seq(Events), NEW e \in Events, socket'.queue = Append(socket.queue, e), NEW d
    PROVE  LET n == Len(socket.queue) IN
           /\ n \in Nat /\ DOMAIN socket.queue = 1..n
           /\ Of(d) \subseteq 1..n
           /\ \A i \in 1..n : socket'.queue[i] = socket.queue[i]
           /\ socket'.queue[n + 1] = e
           /\ Of(d)' = IF e.of = d THEN Of(d) \union {n + 1} ELSE Of(d)
  <1> DEFINE q == socket.queue
  <1> DEFINE n == Len(q)
  <1> HIDE DEF Events
  <1>1. n \in Nat /\ DOMAIN q = 1..n
    OBVIOUS
  <1>2. DOMAIN socket'.queue = 1..n+1 /\ socket'.queue[n + 1] = e /\ \A i \in 1..n : socket'.queue[i] = q[i]
    OBVIOUS
  <1>3. Of(d) = {i \in 1..n : q[i].of = d} /\ Of(d)' = {i \in 1..n+1 : socket'.queue[i].of = d}
    BY <1>1, <1>2 DEF Of
  <1> HIDE DEF q, n
  <1>4. Of(d)' = IF e.of = d THEN Of(d) \union {n + 1} ELSE Of(d)
    BY <1>1, <1>2, <1>3
  <1> QED  BY <1>1, <1>2, <1>3, <1>4 DEF q, n

LEMMA AppendOther ==
    ASSUME socket.queue \in Seq(Events), NEW e \in Events, socket'.queue = Append(socket.queue, e),
           NEW d, e.of # d, d \in present' <=> d \in present, number'[d] = number[d], nodes' = nodes
    PROVE  Of(d)' = Of(d) /\ (Told(d) => Told(d)')
  <1>1. Of(d)' = Of(d) /\ \A i \in Of(d) : socket'.queue[i] = socket.queue[i]
    BY QueueAppend
  <1>2. devpath(d)' = devpath(d) /\ HasNode(d)' = HasNode(d)
    BY DEF devpath, BaseOf, IsLog, HasNode, Makes, IsDevice
  <1>3. LastIsNow(d) => LastIsNow(d)'
    BY <1>1 DEF LastIsNow, IsLast
  <1>4. Chained(d) => Chained(d)'
    <2> SUFFICES ASSUME Chained(d), NEW i \in Of(d), NEW j \in Of(d), i < j, socket'.queue[j].action = "add",
                        \A k \in Of(d) : k <= i \/ k >= j
                 PROVE  socket'.queue[i].action = "remove" \/ socket'.queue[i].number = socket'.queue[j].number
      BY <1>1 DEF Chained
    <2> QED  BY <1>1 DEF Chained
  <1>5. \A n : Fits(d, n) => Fits(d, n)'
    BY <1>2 DEF Fits
  <1>6. FirstFits(d) => FirstFits(d)'
    BY <1>1, <1>5 DEF FirstFits, IsFirst
  <1>7. Shown(d) => Shown(d)'
    <2>1. Fits(d, number[d]) => Fits(d, number[d])'
      BY <1>5
    <2> QED  BY <1>1, <1>2, <2>1 DEF Shown, Fits
  <1> QED  BY <1>1, <1>3, <1>4, <1>6, <1>7 DEF Told

\* What makes an "add" of number n right after what is queued.
Follows(d, n) ==
    /\ \A i \in Of(d) : IsLast(d, i) => socket.queue[i].action = "remove" \/ socket.queue[i].number = n
    /\ Of(d) = {} => Fits(d, n)

LEMMA AppendOwn ==
    ASSUME socket.queue \in Seq(Events), NEW e \in Events, socket'.queue = Append(socket.queue, e),
           NEW d, e.of = d, e.action = "add" <=> d \in present', e.number = number'[d], nodes' = nodes,
           e.action = "add" => Follows(d, e.number), Chained(d), FirstFits(d)
    PROVE  Told(d)'
  <1> DEFINE n == Len(socket.queue)
  <1>1. /\ n \in Nat /\ Of(d) \subseteq 1..n /\ Of(d)' = Of(d) \union {n + 1}
        /\ \A i \in 1..n : socket'.queue[i] = socket.queue[i]
        /\ socket'.queue[n + 1] = e
    BY QueueAppend
  <1> HIDE DEF n
  <1>2. n + 1 \in Of(d)' /\ \A j \in Of(d)' : j <= n + 1 /\ j \in Nat
    BY <1>1
  <1>3. \A i \in Of(d)' : i # n + 1 => i \in Of(d) /\ i \in 1..n
    BY <1>1
  <1>5. LastIsNow(d)'
    <2> SUFFICES ASSUME NEW i \in Of(d)', IsLast(d, i)'
                 PROVE  (socket'.queue[i].action = "add" <=> d \in present') /\ (d \in present' => socket'.queue[i].number = number'[d])
      BY DEF LastIsNow
    <2>1. i = n + 1
      <3>1. n + 1 <= i /\ i <= n + 1 /\ i \in Nat
        BY <1>2 DEF IsLast
      <3> QED  BY <1>1, <3>1
    <2> QED  BY <1>1, <2>1
  <1>6. Chained(d)'
    <2> SUFFICES ASSUME NEW i \in Of(d)', NEW j \in Of(d)', i < j, socket'.queue[j].action = "add",
                        \A k \in Of(d)' : k <= i \/ k >= j
                 PROVE  socket'.queue[i].action = "remove" \/ socket'.queue[i].number = socket'.queue[j].number
      BY DEF Chained
    <2>1. i # n + 1
      BY <1>1, <1>2
    <2>2. i \in Of(d) /\ i \in 1..n /\ socket'.queue[i] = socket.queue[i]
      BY <1>1, <1>3, <2>1
    <2>3. CASE j = n + 1
      <3>1. \A k \in Of(d) : k <= i
        <4> TAKE k \in Of(d)
        <4>1. k \in Of(d)' /\ k \in 1..n
          BY <1>1
        <4>2. ~(k >= n + 1)
          BY <1>1, <4>1
        <4> QED  BY <2>3, <4>1, <4>2
      <3>2. IsLast(d, i)
        BY <3>1 DEF IsLast
      <3> QED  BY <1>1, <2>2, <2>3, <3>2 DEF Follows
    <2>4. CASE j # n + 1
      <3>1. j \in Of(d) /\ j \in 1..n /\ socket'.queue[j] = socket.queue[j]
        BY <1>1, <1>3, <2>4
      <3>2. \A k \in Of(d) : k <= i \/ k >= j
        BY <1>1
      <3> QED  BY <2>2, <3>1, <3>2 DEF Chained
    <2> QED  BY <2>3, <2>4
  <1>7. FirstFits(d)'
    <2> SUFFICES ASSUME NEW i \in Of(d)', socket'.queue[i].action = "add", IsFirst(d, i)'
                 PROVE  devpath(d) \in DOMAIN nodes => nodes[devpath(d)].number = socket'.queue[i].number
      BY DEF FirstFits, Fits, devpath, BaseOf, IsLog
    <2>1. \A j \in Of(d)' : i <= j
      BY DEF IsFirst
    <2>2. CASE i = n + 1
      <3>1. Of(d) = {}
        <4> SUFFICES ASSUME NEW k \in Of(d) PROVE FALSE
          OBVIOUS
        <4>1. k \in 1..n /\ n + 1 <= k
          BY <1>1, <2>1, <2>2
        <4> QED  BY <1>1, <4>1
      <3>2. Fits(d, e.number)
        BY <1>1, <2>2, <3>1 DEF Follows
      <3>3. socket'.queue[i].number = e.number
        BY <1>1, <2>2
      <3> QED  BY <3>2, <3>3 DEF Fits
    <2>3. CASE i # n + 1
      <3>1. i \in Of(d) /\ socket'.queue[i] = socket.queue[i]
        BY <1>1, <1>3, <2>3
      <3>2. IsFirst(d, i)
        BY <1>1, <2>1 DEF IsFirst
      <3>3. Fits(d, socket.queue[i].number)
        BY <3>1, <3>2 DEF FirstFits
      <3> QED  BY <3>1, <3>3 DEF Fits
    <2> QED  BY <2>2, <2>3
  <1>8. Shown(d)'
    BY <1>2 DEF Shown
  <1> QED  BY <1>5, <1>6, <1>7, <1>8 DEF Told

LEMMA QueueTail ==
    ASSUME socket.queue \in Seq(Events), socket.queue # <<>>, socket'.queue = Tail(socket.queue), NEW d
    PROVE  /\ \A i \in Of(d)' : i \in Nat /\ i >= 1 /\ i + 1 \in Of(d) /\ socket'.queue[i] = socket.queue[i + 1]
           /\ \A k \in Of(d) : k \in Nat /\ k >= 1 /\ (k # 1 => k - 1 \in Of(d)')
           /\ 1 \in Of(d) <=> Head(socket.queue).of = d
           /\ Head(socket.queue) = socket.queue[1]
  <1> DEFINE q == socket.queue
  <1> DEFINE n == Len(q)
  <1> HIDE DEF Events
  <1>1. n \in Nat \ {0} /\ DOMAIN q = 1..n /\ Head(q) = q[1]
    OBVIOUS
  <1>2. DOMAIN socket'.queue = 1..n-1 /\ \A i \in 1..n-1 : socket'.queue[i] = q[i + 1]
    OBVIOUS
  <1>3. Of(d) = {i \in 1..n : q[i].of = d} /\ Of(d)' = {i \in 1..n-1 : socket'.queue[i].of = d}
    BY <1>1, <1>2 DEF Of
  <1> HIDE DEF q, n
  <1>4. \A i \in Of(d)' : i \in Nat /\ i >= 1 /\ i + 1 \in Of(d) /\ socket'.queue[i] = q[i + 1]
    <2> TAKE i \in Of(d)'
    <2>1. i \in 1..n-1 /\ i + 1 \in 1..n /\ socket'.queue[i] = q[i + 1]
      BY <1>1, <1>2, <1>3
    <2>2. q[i + 1].of = d
      <3>1. socket'.queue[i].of = d
        BY <1>3
      <3> QED  BY <2>1, <3>1
    <2>3. i + 1 \in Of(d)
      BY <1>3, <2>1, <2>2
    <2>4. i \in Nat /\ i >= 1
      BY <1>1, <2>1
    <2> QED  BY <2>1, <2>3, <2>4
  <1>5. \A k \in Of(d) : k \in Nat /\ k >= 1 /\ (k # 1 => k - 1 \in Of(d)')
    <2> TAKE k \in Of(d)
    <2>1. k \in 1..n /\ q[k].of = d
      BY <1>3
    <2>2. CASE k # 1
      <3>1. k - 1 \in 1..n-1 /\ k - 1 + 1 = k
        BY <1>1, <2>1, <2>2
      <3>2. socket'.queue[k - 1] = q[k]
        BY <1>2, <3>1
      <3>3. socket'.queue[k - 1].of = d
        BY <2>1, <3>2
      <3>4. k - 1 \in Of(d)'
        BY <1>3, <3>1, <3>3
      <3> QED  BY <1>1, <2>1, <3>4
    <2> QED  BY <1>1, <2>1, <2>2
  <1>6. 1 \in Of(d) <=> q[1].of = d
    BY <1>1, <1>3
  <1> QED  BY <1>1, <1>4, <1>5, <1>6 DEF q

LEMMA TailOther ==
    ASSUME socket.queue \in Seq(Events), socket.queue # <<>>, socket'.queue = Tail(socket.queue),
           NEW d, Head(socket.queue).of # d, present' = present, number' = number,
           devpath(d) \in DOMAIN nodes' <=> devpath(d) \in DOMAIN nodes,
           devpath(d) \in DOMAIN nodes => nodes'[devpath(d)] = nodes[devpath(d)]
    PROVE  (Of(d) = {} => Of(d)' = {}) /\ (Told(d) => Told(d)')
  <1>1. /\ \A i \in Of(d)' : i \in Nat /\ i >= 1 /\ i + 1 \in Of(d) /\ socket'.queue[i] = socket.queue[i + 1]
        /\ \A k \in Of(d) : k \in Nat /\ k >= 1 /\ k - 1 \in Of(d)'
    BY QueueTail
  <1>2. devpath(d)' = devpath(d) /\ HasNode(d)' = HasNode(d)
    BY DEF devpath, BaseOf, IsLog, HasNode, Makes, IsDevice
  <1>3. \A i \in Of(d)' : IsLast(d, i)' => IsLast(d, i + 1)
    <2> SUFFICES ASSUME NEW i \in Of(d)', IsLast(d, i)', NEW k \in Of(d) PROVE k <= i + 1
      BY DEF IsLast
    <2>1. k - 1 <= i /\ k \in Nat /\ i \in Nat
      BY <1>1 DEF IsLast
    <2> QED  BY <2>1
  <1>4. LastIsNow(d) => LastIsNow(d)'
    BY <1>1, <1>3 DEF LastIsNow
  <1>5. Chained(d) => Chained(d)'
    <2> SUFFICES ASSUME Chained(d), NEW i \in Of(d)', NEW j \in Of(d)', i < j, socket'.queue[j].action = "add",
                        \A k \in Of(d)' : k <= i \/ k >= j
                 PROVE  socket'.queue[i].action = "remove" \/ socket'.queue[i].number = socket'.queue[j].number
      BY DEF Chained
    <2>1. i + 1 \in Of(d) /\ j + 1 \in Of(d) /\ i + 1 < j + 1
      BY <1>1
    <2>2. \A k \in Of(d) : k <= i + 1 \/ k >= j + 1
      <3> TAKE k \in Of(d)
      <3>1. k - 1 \in Of(d)' /\ k \in Nat /\ i \in Nat /\ j \in Nat
        BY <1>1
      <3>2. k - 1 <= i \/ k - 1 >= j
        BY <3>1
      <3> QED  BY <3>1, <3>2
    <2>3. socket.queue[i + 1].action = "remove" \/ socket.queue[i + 1].number = socket.queue[j + 1].number
      <3>1. socket.queue[j + 1].action = "add"
        BY <1>1
      <3> QED  BY <2>1, <2>2, <3>1 DEF Chained
    <2> QED  BY <1>1, <2>3
  <1>6. FirstFits(d) => FirstFits(d)'
    <2> SUFFICES ASSUME FirstFits(d), NEW i \in Of(d)', socket'.queue[i].action = "add", IsFirst(d, i)'
                 PROVE  devpath(d) \in DOMAIN nodes' => nodes'[devpath(d)].number = socket'.queue[i].number
      BY <1>2 DEF FirstFits, Fits
    <2>1. i + 1 \in Of(d) /\ socket'.queue[i] = socket.queue[i + 1] /\ i \in Nat
      BY <1>1
    <2>2. IsFirst(d, i + 1)
      <3> SUFFICES ASSUME NEW k \in Of(d) PROVE i + 1 <= k
        BY DEF IsFirst
      <3>1. i <= k - 1 /\ k \in Nat
        BY <1>1 DEF IsFirst
      <3> QED  BY <2>1, <3>1
    <2>3. Fits(d, socket.queue[i + 1].number)
      BY <2>1, <2>2 DEF FirstFits
    <2> QED  BY <2>1, <2>3 DEF Fits
  <1>7. Of(d)' = {} => Of(d) = {}
    BY <1>1
  <1>8. Shown(d) => Shown(d)'
    <2>1. Fits(d, number[d]) => Fits(d, number[d])'
      BY <1>2 DEF Fits
    <2> QED  BY <1>2, <1>7, <2>1 DEF Shown, Fits
  <1> QED  BY <1>1, <1>4, <1>5, <1>6, <1>8 DEF Told

\* The device's own event is handled.
LEMMA TailOwn ==
    ASSUME Types, RightsInv, NEW e \in Events, Handled(e), NEW d \in Dirs, e.of = d, Makes(d), Told(d),
           present' = present, number' = number
    PROVE  Told(d)'
  <1> DEFINE p == devpath(d)
  <1> DEFINE n == e.number
  <1>1. /\ socket.queue \in Seq(Events) /\ socket.queue # <<>> /\ socket'.queue = Tail(socket.queue)
        /\ e = Head(socket.queue)
        /\ nodes' = IF e.action = "add" THEN make_device(d, n) ELSE Without(nodes, p)
    <2>1. socket.queue \in Seq(Events)
      BY DEF Types, KernelTypes
    <2> QED  BY <2>1 DEF Handled
  <1>2. /\ \A i \in Of(d)' : i \in Nat /\ i >= 1 /\ i + 1 \in Of(d) /\ socket'.queue[i] = socket.queue[i + 1]
        /\ \A k \in Of(d) : k \in Nat /\ k >= 1 /\ (k # 1 => k - 1 \in Of(d)')
        /\ 1 \in Of(d) /\ e = socket.queue[1]
    BY <1>1, QueueTail
  <1>3. n \in Nat /\ \A x \in DOMAIN nodes : DOMAIN nodes[x] = NodeFields
    BY DevicesAssumption DEF Events, Types, InitTypes
  <1>4. devpath(d)' = p /\ HasNode(d)' = HasNode(d)
    BY DEF devpath, BaseOf, IsLog, HasNode, Makes, IsDevice
  <1>5. e.action # "add" => p \notin DOMAIN nodes'
    BY <1>1 DEF Without
  <1>6. e.action = "add" => (p \in DOMAIN nodes => nodes[p].number = n)
    <2>1. IsFirst(d, 1)
      BY <1>2 DEF IsFirst
    <2> QED  BY <1>2, <2>1 DEF Told, FirstFits, Fits
  <1>7. e.action = "add" =>
           /\ p \in DOMAIN nodes' <=> n <= 255
           /\ p \in DOMAIN nodes' => nodes'[p].number = n
    <2> SUFFICES ASSUME e.action = "add"
                 PROVE  (p \in DOMAIN nodes' <=> n <= 255) /\ (p \in DOMAIN nodes' => nodes'[p].number = n)
      OBVIOUS
    <2>1. CASE n > 255
      <3>1. nodes' = nodes
        BY <1>1, <2>1, MadeIs
      <3>2. p \notin DOMAIN nodes
        BY <1>3, <1>6, <2>1 DEF RightsInv
      <3> QED  BY <1>3, <2>1, <3>1, <3>2
    <2>2. CASE ~(n > 255)
      <3>1. DOMAIN nodes' = DOMAIN nodes \union {p} /\ nodes'[p] = Made(d, n)
        BY <1>1, <2>2, MadeIs
      <3>2. Made(d, n).number = IF p \in DOMAIN nodes THEN nodes[p].number ELSE n
        BY <1>3, MadeSays
      <3> QED  BY <1>3, <1>6, <2>2, <3>1, <3>2
    <2> QED  BY <2>1, <2>2
  <1>8. LastIsNow(d)'
    <2>1. \A i \in Of(d)' : IsLast(d, i)' => IsLast(d, i + 1)
      <3> SUFFICES ASSUME NEW i \in Of(d)', IsLast(d, i)', NEW k \in Of(d) PROVE k <= i + 1
        BY DEF IsLast
      <3>1. k \in Nat /\ i \in Nat /\ i >= 1 /\ (k = 1 \/ k - 1 <= i)
        BY <1>2 DEF IsLast
      <3> QED  BY <3>1
    <2> QED  BY <1>2, <2>1 DEF LastIsNow, Told
  <1>9. Chained(d)'
    <2> SUFFICES ASSUME NEW i \in Of(d)', NEW j \in Of(d)', i < j, socket'.queue[j].action = "add",
                        \A k \in Of(d)' : k <= i \/ k >= j
                 PROVE  socket'.queue[i].action = "remove" \/ socket'.queue[i].number = socket'.queue[j].number
      BY DEF Chained
    <2>1. i + 1 \in Of(d) /\ j + 1 \in Of(d) /\ i + 1 < j + 1
      BY <1>2
    <2>2. \A k \in Of(d) : k <= i + 1 \/ k >= j + 1
      <3> TAKE k \in Of(d)
      <3>1. k \in Nat /\ i \in Nat /\ j \in Nat /\ (k = 1 \/ k - 1 <= i \/ k - 1 >= j)
        BY <1>2
      <3> QED  BY <3>1
    <2>3. socket.queue[i + 1].action = "remove" \/ socket.queue[i + 1].number = socket.queue[j + 1].number
      <3>1. socket.queue[j + 1].action = "add"
        BY <1>2
      <3> QED  BY <2>1, <2>2, <3>1 DEF Chained, Told
    <2> QED  BY <1>2, <2>3
  <1>10. FirstFits(d)'
    <2> SUFFICES ASSUME NEW i \in Of(d)', socket'.queue[i].action = "add", IsFirst(d, i)'
                 PROVE  p \in DOMAIN nodes' => nodes'[p].number = socket'.queue[i].number
      BY <1>4 DEF FirstFits, Fits
    <2>1. i + 1 \in Of(d) /\ socket'.queue[i] = socket.queue[i + 1] /\ i \in Nat /\ i >= 1
      BY <1>2
    <2>2. \A k \in Of(d) : k <= 1 \/ k >= i + 1
      <3> TAKE k \in Of(d)
      <3>1. k \in Nat /\ (k = 1 \/ i <= k - 1)
        BY <1>2 DEF IsFirst
      <3> QED  BY <2>1, <3>1
    <2>3. e.action = "remove" \/ n = socket'.queue[i].number
      <3>1. socket.queue[i + 1].action = "add" /\ 1 < i + 1
        BY <2>1
      <3> QED  BY <1>2, <2>1, <2>2, <3>1 DEF Chained, Told
    <2> QED  BY <1>5, <1>7, <2>3
  <1>11. Shown(d)'
    <2> SUFFICES ASSUME Of(d)' = {}
                 PROVE  /\ p \in DOMAIN nodes' <=> d \in present /\ HasNode(d)
                        /\ p \in DOMAIN nodes' => nodes'[p].number = number[d]
      BY <1>4 DEF Shown, Fits
    <2>1. IsLast(d, 1)
      <3> SUFFICES ASSUME NEW k \in Of(d) PROVE k <= 1
        BY DEF IsLast
      <3> QED  BY <1>2
    <2>2. (e.action = "add" <=> d \in present) /\ (d \in present => n = number[d])
      BY <1>2, <2>1 DEF Told, LastIsNow
    <2>3. HasNode(d) <=> number[d] <= 255
      BY DEF HasNode
    <2> QED  BY <1>5, <1>7, <2>2, <2>3
  <1> QED  BY <1>8, <1>9, <1>10, <1>11 DEF Told

-----------------------------------------------------------------------------
(* Every device is told of, or the walk will come to it *)

LEMMA AloneMakes ==
    ASSUME NEW d \in Alone
    PROVE  /\ d \in Dirs /\ d \in InTrees /\ Makes(d) /\ IsDevice(d)
           /\ \A x \in Dirs : Makes(x) /\ devpath(x) = devpath(d) => x = d
  BY DEF Alone, InTrees, Makes

\* Before init listens the walk is all ahead.
LEMMA EarlyNodes ==
    ASSUME Types, WalkInv, KeepsUp, pc = "early"
    PROVE  AllTold
  <1> SUFFICES ASSUME NEW d \in Alone PROVE Told(d) \/ Untold(d)
    BY DEF AllTold
  <1>1. Of(d) = {} /\ devpath(d) \notin DOMAIN nodes
    BY DEF KeepsUp, WalkInv, Of
  <1>2. CASE d \in present
    <2>1. d \in Under({Roots[i] : i \in DOMAIN Roots}, present)
      BY <1>2, AloneMakes, TreesAreUnder DEF Types, KernelTypes, WalkInv
    <2>2. d \in Under(Left, present)
      BY <2>1 DEF Left
    <2> QED  BY <1>1, <1>2, <2>2 DEF Untold
  <1>3. CASE d \notin present
    BY <1>1, <1>3 DEF Told, LastIsNow, Chained, FirstFits, Shown, Fits
  <1> QED  BY <1>2, <1>3

\* A step that moves the walk only.
LEMMA WalkOnly ==
    ASSUME AllTold, UNCHANGED <<present, number, nodes, lost>>, socket'.queue = socket.queue,
           \A d \in Alone : d \in present /\ (d \in Under(Left, present) \/ d \in Unpoked) =>
                               d \in Under(Left, present)' \/ d \in Unpoked'
    PROVE  AllTold'
  <1>1. Alone' = Alone
    BY DEF Alone, devpath, BaseOf, IsLog, Makes, InTrees, IsDevice
  <1>2. \A d \in Alone : Of(d)' = Of(d) /\ (Told(d) => Told(d)')
    <2> TAKE d \in Alone
    <2> QED  BY ToldSame
  <1>3. \A d \in Alone : Untold(d) => Untold(d)'
    <2> TAKE d \in Alone
    <2>1. devpath(d)' = devpath(d)
      BY DEF devpath, BaseOf, IsLog
    <2> QED  BY <1>2, <2>1 DEF Untold
  <1> QED  BY <1>1, <1>2, <1>3 DEF AllTold

\* A device comes or goes, or the walk asks for a device again.
LEMMA KernelNodes ==
    ASSUME Types, WalkInv, KeepsUp, NodeInv, Kernel
    PROVE  NodeInv'
  <1>1. KernelRest
    BY KernelSays
  <1>2. PICK c \in Dirs, e \in Events :
                /\ e.of = c /\ Sends(e) /\ e.number = number'[c]
                /\ \/ /\ e.action = "add" /\ c \notin present /\ Parent[c] \in present
                      /\ present' = present \union {c} /\ walk' = walk
                      /\ number' \in [Dirs -> Numbers] /\ \A x \in Dirs : x # c => number'[x] = number[x]
                   \/ /\ e.action = "remove" /\ c \in present /\ Children(c) = {}
                      /\ present' = present \ {c} /\ number' = number
                      /\ walk' = [i \in DOMAIN walk |-> [walk[i] EXCEPT !.must = @ \ {c}]]
    BY KernelSays
  <1> SUFFICES ASSUME pc # "early", lost' = 0, NEW d \in Alone PROVE Told(d)' \/ Untold(d)'
    <2>1. Alone' = Alone /\ pc' = pc
      BY <1>1 DEF Alone, devpath, BaseOf, IsLog, Makes, InTrees, IsDevice, KernelRest
    <2> QED  BY <2>1 DEF NodeInv, AllTold
  <1>3. d \in Dirs /\ Makes(d) /\ IsDevice(d)
    BY AloneMakes
  <1>4. lost = 0 /\ ~socket.err /\ ~socket.congested
    BY <1>2, SendsSays DEF Types, KeepsUp
  <1>5. socket'.queue = IF IsDevice(c) THEN Append(socket.queue, e) ELSE socket.queue
    BY <1>2, <1>4, SendsSays DEF Types
  <1>6. Told(d) \/ Untold(d)
    BY <1>4 DEF NodeInv, AllTold
  <1>7. socket.queue \in Seq(Events) /\ nodes' = nodes /\ present \subseteq Dirs
    BY <1>1 DEF Types, KernelTypes, KernelRest
  <1>8. CASE d # c
    <2>1. (d \in present' <=> d \in present) /\ number'[d] = number[d]
      BY <1>2, <1>3, <1>8
    <2>2. Of(d)' = Of(d) /\ (Told(d) => Told(d)')
      <3>1. CASE IsDevice(c)
        BY <1>2, <1>5, <1>7, <1>8, <2>1, <3>1, AppendOther
      <3>2. CASE ~IsDevice(c)
        BY <1>5, <1>7, <2>1, <3>2, ToldSame
      <3> QED  BY <3>1, <3>2
    <2>3. Untold(d) => Untold(d)'
      <3> SUFFICES ASSUME Untold(d) PROVE Untold(d)'
        OBVIOUS
      <3>1. pc' = pc /\ roots' = roots
        BY <1>1 DEF KernelRest
      <3>2. d \in present /\ d \in present' /\ Of(d)' = {} /\ devpath(d)' \notin DOMAIN nodes'
        BY <1>7, <2>1, <2>2 DEF Untold, devpath, BaseOf, IsLog
      <3>3. CASE e.action = "add"
        <4>1. Left' = Left /\ Unpoked' = Unpoked /\ present \subseteq present'
          BY <1>2, <3>1, <3>3 DEF Left, Unpoked
        <4>2. d \in Under(Left, present) => d \in Under(Left, present')
          BY <4>1, UnderGrows
        <4>3. d \in Under(Left, present') => d \in Under(Left', present')
          BY <4>1
        <4> QED  BY <3>2, <4>1, <4>2, <4>3 DEF Untold, Under
      <3>4. CASE e.action # "add"
        <4>1. /\ present' = present \ {c} /\ Children(c) = {}
              /\ walk' = [i \in DOMAIN walk |-> [walk[i] EXCEPT !.must = @ \ {c}]]
          BY <1>2, <3>4
        <4>2. /\ DOMAIN walk' = DOMAIN walk
              /\ \A i \in DOMAIN walk : /\ walk'[i].must = walk[i].must \ {c} /\ walk'[i].seen = walk[i].seen
                                        /\ walk'[i].poked = walk[i].poked /\ walk'[i].dir = walk[i].dir
          <5>1. \A i \in DOMAIN walk : walk[i] \in Frames
            BY DEF Types, InitTypes
          <5> QED  BY <4>1, <5>1 DEF Frames
        <4>3. Left \subseteq Left' \union {c}
          BY <3>1, <4>2 DEF Left
        <4>4. d \in Unpoked => d \in Unpoked'
          <5>1. walk # <<>> => 1 \in DOMAIN walk /\ walk' # <<>>
            <6>1. walk \in Seq(Frames)
              BY DEF Types, InitTypes
            <6>2. walk # <<>> => 1 \in DOMAIN walk
              BY <6>1
            <6> QED  BY <4>2, <6>2
          <5> QED  BY <4>2, <5>1 DEF Unpoked
        <4>5. \A x \in present : Parent[x] # c
          BY <4>1 DEF Children
        <4>6. d \in Under(Left, present) => d \in Under(Left', present \ {c})
          BY <1>8, <4>3, <4>5, UnderShrinks
        <4> QED  BY <3>2, <4>1, <4>4, <4>6 DEF Untold, Under
      <3> QED  BY <3>3, <3>4
    <2> QED  BY <1>6, <2>2, <2>3
  <1>9. CASE d = c
    <2>1. socket'.queue = Append(socket.queue, e)
      BY <1>3, <1>5, <1>9
    <2>2. Chained(d) /\ FirstFits(d)
      BY <1>6 DEF Told, Untold, Chained, FirstFits
    <2>3. e.action = "add" => Follows(d, e.number)
      <3> SUFFICES ASSUME e.action = "add" PROVE Follows(d, e.number)
        OBVIOUS
      <3>1. d \notin present
        BY <1>2, <1>9
      <3>2. Told(d)
        BY <1>6, <3>1 DEF Untold
      <3>3. \A i \in Of(d) : socket.queue[i].action \in {"add", "remove"}
        <4>1. \A i \in Of(d) : socket.queue[i] \in Events
          <5> HIDE DEF Events
          <5> QED  BY <1>7 DEF Of
        <4> QED  BY <4>1 DEF Events
      <3> QED  BY <3>1, <3>2, <3>3 DEF Follows, Told, LastIsNow, Shown, Fits
    <2>4. e.action = "add" <=> d \in present'
      BY <1>2, <1>9
    <2> QED  BY <1>2, <1>7, <1>9, <2>1, <2>2, <2>3, <2>4, AppendOwn
  <1> QED  BY <1>8, <1>9

LEMMA PokeNodes ==
    ASSUME Types, WalkInv, KeepsUp, NodeInv, Poke
    PROVE  NodeInv'
  <1> DEFINE c == Top.dir
  <1>1. /\ UNCHANGED <<present, number, nodes, roots>> /\ pc = "walk" /\ pc' \in {"walk", "drain"} /\ walk # <<>>
        /\ ~Top.poked /\ walk' = [walk EXCEPT ![1].poked = TRUE]
        /\ IF c \in present /\ IsDevice(c) THEN Sends(Event("add", c, number[c])) ELSE UNCHANGED <<socket, lost>>
    BY DEF Poke, UnchangedKernel, kernelVars
  <1>2. walk \in Seq(Frames) /\ 1 \in DOMAIN walk /\ walk[1] \in Frames /\ number \in [Dirs -> Numbers]
        /\ socket.queue \in Seq(Events)
    BY <1>1, TailFrames DEF Types, InitTypes, KernelTypes
  <1>3. c \in Dirs /\ number[c] \in Numbers
    BY <1>2 DEF Top, Frames
  <1>4. Left' = Left
    <2>1. /\ DOMAIN walk' = DOMAIN walk
          /\ \A i \in DOMAIN walk : walk'[i].must = walk[i].must /\ walk'[i].seen = walk[i].seen
      BY <1>1, <1>2 DEF Frames
    <2> QED  BY <1>1, <2>1 DEF Left
  <1> SUFFICES ASSUME lost' = 0, NEW d \in Alone PROVE Told(d)' \/ Untold(d)'
    <2>1. Alone' = Alone
      BY DEF Alone, devpath, BaseOf, IsLog, Makes, InTrees, IsDevice
    <2> QED  BY <2>1 DEF NodeInv, AllTold
  <1>5. d \in Dirs /\ Makes(d) /\ IsDevice(d)
    BY AloneMakes
  <1> DEFINE e == Event("add", c, number[c])
  <1>6. e \in Events /\ e.of = c /\ e.number = number[c] /\ e.action = "add"
    BY <1>3, EventIsTyped
  <1>7. lost = 0 /\ ~socket.err /\ ~socket.congested
    <2>1. lost = 0
      BY <1>1, <1>6, SendsSays DEF Types
    <2> QED  BY <2>1 DEF KeepsUp
  <1>8. Told(d) \/ Untold(d)
    BY <1>1, <1>7 DEF NodeInv, AllTold
  <1> HIDE DEF e
  <1>9. socket'.queue = IF c \in present /\ IsDevice(c) THEN Append(socket.queue, e) ELSE socket.queue
    BY <1>1, <1>6, <1>7, SendsSays DEF Types, e
  <1>10. d \in Unpoked => d = c
    BY DEF Unpoked, Top
  <1>11. CASE d # c \/ ~(c \in present /\ IsDevice(c))
    <2>1. Of(d)' = Of(d) /\ (Told(d) => Told(d)')
      <3>1. CASE c \in present /\ IsDevice(c)
        BY <1>1, <1>2, <1>6, <1>9, <1>11, <3>1, AppendOther
      <3>2. CASE ~(c \in present /\ IsDevice(c))
        BY <1>1, <1>9, <3>2, ToldSame
      <3> QED  BY <3>1, <3>2
    <2>2. Untold(d) => Untold(d)'
      <3> SUFFICES ASSUME Untold(d) PROVE Untold(d)'
        OBVIOUS
      <3>1. d \in Under(Left, present)
        BY <1>5, <1>10, <1>11 DEF Untold
      <3>2. d \in Under(Left', present')
        BY <1>1, <1>4, <3>1
      <3> QED  BY <1>1, <2>1, <3>2 DEF Untold, devpath, BaseOf, IsLog, Under
    <2> QED  BY <1>8, <2>1, <2>2
  <1>12. CASE d = c /\ c \in present /\ IsDevice(c)
    <2>1. Chained(d) /\ FirstFits(d)
      BY <1>8 DEF Told, Untold, Chained, FirstFits
    <2>2. Follows(d, e.number)
      <3>1. CASE Told(d)
        BY <1>6, <1>12, <3>1 DEF Told, LastIsNow, Shown, Follows
      <3>2. CASE Untold(d)
        BY <3>2 DEF Untold, Follows, Fits
      <3> QED  BY <1>8, <3>1, <3>2
    <2> QED  BY <1>1, <1>2, <1>6, <1>9, <1>12, <2>1, <2>2, AppendOwn
  <1> QED  BY <1>11, <1>12

LEMMA WalkNodes ==
    ASSUME Types, WalkInv, KeepsUp, NodeInv, device_init \/ coldboot \/ Readdir \/ boot \/ poll
    PROVE  NodeInv'
  <1>1. UNCHANGED <<present, number, nodes, lost, socket>>
    BY DEF device_init, coldboot, Readdir, boot, poll, UnchangedKernel, kernelVars
  <1>2. AllTold
    BY EarlyNodes DEF NodeInv
  <1>3. walk \in Seq(Frames) /\ roots \in Seq(Dirs) /\ present \subseteq Dirs
    BY DEF Types, InitTypes, KernelTypes
  <1> DEFINE Comes(d) == d \in Under(Left, present) \/ d \in Unpoked
  <1> DEFINE ComesNext(d) == d \in Under(Left, present)' \/ d \in Unpoked'
  <1>4. \A S : Under(S, present') = Under(S, present)
    BY <1>1
  <1>5. Left' = Left /\ Unpoked' = Unpoked => \A d \in Alone : Comes(d) => ComesNext(d)
    BY <1>1 DEF Under
  <1>6. CASE device_init
    <2>1. pc = "early" /\ roots' = Roots /\ walk' = walk /\ walk = <<>> /\ pc' = "walk"
      BY <1>6 DEF device_init, WalkInv
    <2>2. DOMAIN walk = {}
      BY <2>1
    <2>3. Left' = Left /\ Unpoked' = Unpoked
      BY <2>1, <2>2 DEF Left, Unpoked
    <2>4. \A d \in Alone : Comes(d) => ComesNext(d)
      BY <1>5, <2>3
    <2>5. AllTold'
      BY <1>1, <1>2, <2>4, WalkOnly
    <2> QED  BY <2>5 DEF NodeInv
  <1>7. CASE boot \/ poll
    <2>1. pc # "early" /\ pc' # "early" /\ UNCHANGED <<roots, walk>>
      BY <1>7 DEF boot, poll
    <2>2. Left' = Left /\ Unpoked' = Unpoked
      BY <2>1 DEF Left, Unpoked
    <2>3. \A d \in Alone : Comes(d) => ComesNext(d)
      BY <1>5, <2>2
    <2>4. AllTold'
      BY <1>1, <1>2, <2>3, WalkOnly
    <2> QED  BY <2>4 DEF NodeInv
  <1>8. CASE coldboot /\ roots = <<>>
    <2>1. pc # "early" /\ pc' # "early" /\ UNCHANGED <<roots, walk>>
      BY <1>8 DEF coldboot
    <2>2. Left' = Left /\ Unpoked' = Unpoked
      BY <2>1 DEF Left, Unpoked
    <2>3. \A d \in Alone : Comes(d) => ComesNext(d)
      BY <1>5, <2>2
    <2>4. AllTold'
      BY <1>1, <1>2, <2>3, WalkOnly
    <2> QED  BY <2>4 DEF NodeInv
  <1>9. CASE coldboot /\ roots # <<>>
    <2> DEFINE c == Head(roots)
    <2>1. /\ pc = "walk" /\ pc' = "walk" /\ walk = <<>> /\ roots' = Tail(roots)
          /\ walk' = IF c \in present THEN <<Frame(c)>> ELSE <<>>
      BY <1>9 DEF coldboot
    <2>2. c \in Dirs /\ DOMAIN walk = {}
      BY <1>3, <1>9, <2>1
    <2>3. {roots[i] : i \in DOMAIN roots} \subseteq {roots'[i] : i \in DOMAIN roots'} \union {c}
      <3> SUFFICES ASSUME NEW i \in DOMAIN roots, i # 1
                   PROVE  roots[i] \in {roots'[j] : j \in DOMAIN roots'}
        BY <1>3, <1>9
      <3>1. i - 1 \in DOMAIN Tail(roots) /\ Tail(roots)[i - 1] = roots[i]
        BY <1>3, <1>9
      <3> QED  BY <2>1, <3>1
    <2>4. Left = {roots[i] : i \in DOMAIN roots} /\ {roots'[i] : i \in DOMAIN roots'} \subseteq Left'
      BY <2>1, <2>2 DEF Left
    <2>5. Left \subseteq Left' \union {c}
      BY <2>3, <2>4
    <2>6. \A x \in present : Parent[x] = c => c \in present /\ x \in Left'
      <3> TAKE x \in present
      <3> HAVE Parent[x] = c
      <3>1. c \in present
        BY <2>2, DevicesAssumption DEF WalkInv, Rooted
      <3>2. walk'[1] = Frame(c) /\ DOMAIN walk' = {1}
        BY <2>1, <3>1
      <3>3. Frame(c).must = Children(c) /\ Frame(c).seen = {}
        BY <1>3, <2>2, FrameIsTyped
      <3>4. x \in Children(c) /\ x \in Dirs
        BY <1>3 DEF Children
      <3>5. x \in walk'[1].must \ walk'[1].seen
        BY <3>2, <3>3, <3>4
      <3> QED  BY <2>1, <3>1, <3>2, <3>4, <3>5 DEF Left
    <2>7. ASSUME NEW d \in Alone, d \in present, Comes(d)
          PROVE  ComesNext(d)
      <3>1. d \in Under(Left, present)
        BY <2>1, <2>7 DEF Unpoked
      <3>2. CASE d = c
        <4>1. walk' = <<Frame(c)>>
          BY <2>1, <2>7, <3>2
        <4>2. walk' # <<>> /\ walk'[1] = Frame(c)
          BY <4>1
        <4>3. ~Frame(c).poked /\ Frame(c).dir = c
          BY <1>3, <2>2, FrameIsTyped
        <4>4. d \in Unpoked'
          BY <2>2, <3>2, <4>2, <4>3 DEF Unpoked
        <4> QED  BY <4>4
      <3>3. CASE d # c
        <4>1. d \in Under(Left', present)
          BY <2>5, <2>6, <3>1, <3>3, UnderDown
        <4> QED  BY <1>1, <4>1 DEF Under
      <3> QED  BY <3>2, <3>3
    <2>8. AllTold'
      BY <1>1, <1>2, <2>7, WalkOnly
    <2> QED  BY <2>8 DEF NodeInv
  <1>10. CASE Readdir
    <2>1. /\ pc = "walk" /\ walk # <<>> /\ Top.poked /\ UNCHANGED <<pc, roots>>
          /\ \/ \E c \in Children(Top.dir) \ Top.seen : walk' = Entered(c)
             \/ Top.must \subseteq Top.seen /\ walk' = Tail(walk)
      BY <1>10 DEF Readdir, Entered
    <2>2. \A d : d \notin Unpoked
      BY <2>1 DEF Unpoked, Top
    <2>3. ASSUME NEW c \in Children(Top.dir), walk' = Entered(c), NEW d \in Alone, d \in present, Comes(d)
          PROVE  ComesNext(d)
      <3>1. c \in Dirs /\ c \in present
        BY <1>3 DEF Children
      <3>2. /\ Entered(c)[1] = Frame(c) /\ 1 \in DOMAIN Entered(c) /\ 2 \in DOMAIN Entered(c)
            /\ Entered(c)[2] = [walk[1] EXCEPT !.seen = @ \union {c}]
            /\ \A i \in DOMAIN walk : i # 1 => i + 1 \in DOMAIN Entered(c) /\ Entered(c)[i + 1] = walk[i]
            /\ Entered(c) # <<>>
        BY <1>3, <2>1, <3>1, EnteredIs
      <3>3. 1 \in DOMAIN walk /\ walk[1] \in Frames
        BY <1>3, <2>1, TailFrames
      <3>4. Entered(c)[2].must = walk[1].must /\ Entered(c)[2].seen = walk[1].seen \union {c}
        BY <3>2, <3>3 DEF Frames
      <3>5. /\ Frame(c).must = Children(c) /\ Frame(c).seen = {} /\ ~Frame(c).poked /\ Frame(c).dir = c
        BY <1>3, <3>1, FrameIsTyped
      <3>6. Left \subseteq Left' \union {c}
        <4> SUFFICES ASSUME NEW x \in Left, x # c PROVE x \in Left'
          OBVIOUS
        <4>1. CASE x \in {roots[i] : i \in DOMAIN roots}
          BY <2>1, <4>1 DEF Left
        <4>2. CASE x \in Dirs /\ \E i \in DOMAIN walk : x \in walk[i].must \ walk[i].seen
          <5>1. PICK i \in DOMAIN walk : x \in walk[i].must \ walk[i].seen
            BY <4>2
          <5>2. \E j \in DOMAIN walk' : x \in walk'[j].must \ walk'[j].seen
            <6>1. CASE i = 1
              <7>1. x \in walk'[2].must \ walk'[2].seen
                BY <2>3, <3>4, <5>1, <6>1
              <7> QED  BY <2>3, <3>2, <7>1
            <6>2. CASE i # 1
              <7>1. i + 1 \in DOMAIN walk' /\ walk'[i + 1] = walk[i]
                BY <2>3, <3>2, <6>2
              <7> QED  BY <5>1, <7>1
            <6> QED  BY <6>1, <6>2
          <5> QED  BY <2>1, <4>2, <5>2 DEF Left
        <4> QED  BY <2>1, <4>1, <4>2 DEF Left
      <3>7. \A x \in present : Parent[x] = c => x \in Left'
        <4> TAKE x \in present
        <4> HAVE Parent[x] = c
        <4>1. x \in Children(c) /\ x \in Dirs
          BY <1>3 DEF Children
        <4>2. x \in walk'[1].must \ walk'[1].seen /\ 1 \in DOMAIN walk'
          BY <2>3, <3>2, <3>5, <4>1
        <4> QED  BY <2>1, <4>1, <4>2 DEF Left
      <3>8. CASE d = c
        <4>1. d \in Unpoked'
          BY <2>3, <3>1, <3>2, <3>5, <3>8 DEF Unpoked
        <4> QED  BY <4>1
      <3>9. CASE d # c
        <4>1. d \in Under(Left', present)
          BY <2>2, <2>3, <3>6, <3>7, <3>9, UnderDown
        <4> QED  BY <1>1, <4>1 DEF Under
      <3> QED  BY <3>8, <3>9
    <2>4. ASSUME Top.must \subseteq Top.seen, walk' = Tail(walk), NEW d \in Alone, d \in present, Comes(d)
          PROVE  ComesNext(d)
      <3>1. Left \subseteq Left'
        <4> SUFFICES ASSUME NEW x \in Left PROVE x \in Left'
          OBVIOUS
        <4>1. CASE x \in {roots[i] : i \in DOMAIN roots}
          BY <2>1, <4>1 DEF Left
        <4>2. CASE x \in Dirs /\ \E i \in DOMAIN walk : x \in walk[i].must \ walk[i].seen
          <5>1. PICK i \in DOMAIN walk : x \in walk[i].must \ walk[i].seen
            BY <4>2
          <5>2. i # 1
            BY <2>4, <5>1 DEF Top
          <5>3. i - 1 \in DOMAIN Tail(walk) /\ Tail(walk)[i - 1] = walk[i]
            <6> HIDE DEF Frames
            <6> QED  BY <1>3, <2>1, <5>2
          <5>4. \E j \in DOMAIN walk' : x \in walk'[j].must \ walk'[j].seen
            BY <2>4, <5>1, <5>3
          <5> QED  BY <2>1, <4>2, <5>4 DEF Left
        <4> QED  BY <2>1, <4>1, <4>2 DEF Left
      <3>2. d \in Under(Left', present)
        BY <2>2, <2>4, <3>1, UnderMore
      <3> QED  BY <1>1, <3>2 DEF Under
    <2>5. \A d \in Alone : d \in present /\ Comes(d) => ComesNext(d)
      BY <2>1, <2>3, <2>4
    <2>6. AllTold'
      BY <1>1, <1>2, <2>5, WalkOnly
    <2> QED  BY <2>6 DEF NodeInv
  <1> QED  BY <1>6, <1>7, <1>8, <1>9, <1>10

LEMMA RecvNodes ==
    ASSUME Types, WalkInv, KeepsUp, RightsInv, NodeInv, Recv
    PROVE  NodeInv'
  <1>1. UNCHANGED <<present, number, lost, roots, walk>> /\ pc \in {"drain", "handle"}
    BY RecvSays
  <1>2. CASE Drained
    <2>1. socket'.queue = socket.queue /\ nodes' = nodes /\ pc' # "early"
      BY <1>2 DEF Drained
    <2>2. Left' = Left /\ Unpoked' = Unpoked
      BY <1>1, <2>1 DEF Left, Unpoked
    <2>3. \A d \in Alone : d \in present /\ (d \in Under(Left, present) \/ d \in Unpoked) =>
                               d \in Under(Left, present)' \/ d \in Unpoked'
      BY <1>1, <2>2 DEF Under
    <2>4. AllTold
      BY <1>1 DEF NodeInv
    <2>5. AllTold'
      BY <1>1, <2>1, <2>3, <2>4, WalkOnly
    <2> QED  BY <2>5 DEF NodeInv
  <1>3. ASSUME NEW e \in Events, Handled(e)
        PROVE  NodeInv'
    <2> SUFFICES ASSUME lost = 0, NEW d \in Alone PROVE Told(d)' \/ Untold(d)'
      <3>1. Alone' = Alone
        BY DEF Alone, devpath, BaseOf, IsLog, Makes, InTrees, IsDevice
      <3> QED  BY <1>1, <3>1 DEF NodeInv, AllTold
    <2>1. d \in Dirs /\ Makes(d) /\ \A x \in Dirs : Makes(x) /\ devpath(x) = devpath(d) => x = d
      BY AloneMakes
    <2>2. Told(d) \/ Untold(d)
      BY <1>1 DEF NodeInv, AllTold
    <2>3. /\ socket.queue \in Seq(Events) /\ socket.queue # <<>> /\ socket'.queue = Tail(socket.queue)
          /\ e = Head(socket.queue) /\ e.of \in Dirs /\ pc' = pc
          /\ nodes' = IF ~Makes(e.of) THEN nodes
                      ELSE IF e.action = "add" THEN make_device(e.of, e.number) ELSE Without(nodes, devpath(e.of))
      <3>1. socket.queue \in Seq(Events)
        BY DEF Types, KernelTypes
      <3>2. e.of \in Dirs
        BY DEF Events
      <3> QED  BY <1>3, <3>1, <3>2 DEF Handled
    <2>4. CASE e.of = d
      <3>1. 1 \in Of(d)
        BY <2>3, <2>4, QueueTail
      <3>2. Told(d)
        BY <2>2, <3>1 DEF Untold
      <3> QED  BY <1>1, <1>3, <2>1, <2>4, <3>2, TailOwn
    <2>5. CASE e.of # d
      <3> DEFINE p == devpath(d)
      <3>1. (p \in DOMAIN nodes' <=> p \in DOMAIN nodes) /\ (p \in DOMAIN nodes => nodes'[p] = nodes[p])
        <4>1. Makes(e.of) => devpath(e.of) # p
          BY <2>1, <2>3, <2>5
        <4>2. CASE ~Makes(e.of)
          BY <2>3, <4>2
        <4>3. CASE Makes(e.of) /\ e.action = "add"
          <5>1. nodes' = make_device(e.of, e.number)
            BY <2>3, <4>3
          <5> HIDE DEF p
          <5>2. CASE e.number > 255
            <6>1. nodes' = nodes
              BY <5>1, <5>2, MadeIs
            <6> QED  BY <6>1
          <5>3. CASE ~(e.number > 255)
            <6>1. /\ DOMAIN nodes' = DOMAIN nodes \union {devpath(e.of)}
                  /\ \A x \in DOMAIN nodes : x # devpath(e.of) => nodes'[x] = nodes[x]
              <7> DEFINE b == e.of
              <7> DEFINE n == e.number
              <7>1. nodes' = make_device(b, n) /\ ~(n > 255)
                BY <5>1, <5>3
              <7> HIDE DEF b, n
              <7>2. /\ DOMAIN make_device(b, n) = DOMAIN nodes \union {devpath(b)}
                    /\ \A x \in DOMAIN nodes : x # devpath(b) => make_device(b, n)[x] = nodes[x]
                BY <7>1, MadeIs
              <7>3. /\ DOMAIN nodes' = DOMAIN nodes \union {devpath(b)}
                    /\ \A x \in DOMAIN nodes : x # devpath(b) => nodes'[x] = nodes[x]
                BY <7>1, <7>2
              <7> QED  BY <7>3 DEF b
            <6>2. p # devpath(e.of)
              BY <4>1, <4>3
            <6> QED  BY <6>1, <6>2
          <5> QED  BY <5>2, <5>3
        <4>4. CASE Makes(e.of) /\ e.action # "add"
          <5>1. nodes' = Without(nodes, devpath(e.of))
            BY <2>3, <4>4
          <5> HIDE DEF p
          <5> QED  BY <4>1, <4>4, <5>1 DEF Without
        <4> QED  BY <4>2, <4>3, <4>4
      <3>2. (Of(d) = {} => Of(d)' = {}) /\ (Told(d) => Told(d)')
        BY <1>1, <2>3, <2>5, <3>1, TailOther
      <3>3. Untold(d) => Untold(d)'
        <4>1. Left' = Left /\ Unpoked' = Unpoked
          BY <1>1, <2>3 DEF Left, Unpoked
        <4> QED  BY <1>1, <3>1, <3>2, <4>1 DEF Untold, devpath, BaseOf, IsLog, Under
      <3> QED  BY <2>2, <3>2, <3>3
    <2> QED  BY <2>4, <2>5
  <1> QED  BY <1>2, <1>3, RecvSays

-----------------------------------------------------------------------------
(* The theorem *)

DevicesInv == Types /\ KeepsUp /\ WalkInv /\ RightsInv /\ NodeInv

LEMMA InitInv == Init => DevicesInv
  <1> SUFFICES ASSUME Init PROVE DevicesInv
    OBVIOUS
  <1>1. Types
    BY InitIsTyped
  <1>2. pc = "early" /\ socket.queue = <<>> /\ ~socket.err /\ ~socket.congested /\ lost = 0 /\ walk = <<>>
        /\ DOMAIN nodes = {}
    BY DEF Init, NoNodes
  <1>3. KeepsUp
    BY <1>2 DEF KeepsUp
  <1>4. WalkInv
    <2>1. Rooted
      BY DevicesAssumption DEF Init, Rooted
    <2> QED  BY <1>2, <2>1 DEF WalkInv
  <1>5. RightsInv
    BY <1>2 DEF RightsInv
  <1>6. NodeInv
    BY <1>2 DEF NodeInv
  <1> QED  BY <1>1, <1>3, <1>4, <1>5, <1>6 DEF DevicesInv

LEMMA NextInv == DevicesInv /\ [Next]_vars => DevicesInv'
  <1> SUFFICES ASSUME DevicesInv, [Next]_vars PROVE DevicesInv'
    OBVIOUS
  <1> USE DEF DevicesInv
  <1>1. Types' /\ KeepsUp' /\ WalkInv' /\ RightsInv'
    BY TypesKept, KeepsUpKept, WalkKept, RightsKept
  <1>2. NodeInv'
    <2>1. CASE Kernel
      BY <2>1, KernelNodes
    <2>2. CASE init
      BY <2>2, WalkNodes, PokeNodes, RecvNodes DEF init
    <2>3. CASE UNCHANGED NodeVars
      <3>1. Left' = Left /\ Unpoked' = Unpoked /\ Alone' = Alone
        BY <2>3 DEF NodeVars, Left, Unpoked, Alone, devpath, BaseOf, IsLog, Makes, InTrees, IsDevice
      <3>2. \A d \in Alone : Told(d) => Told(d)'
        <4> TAKE d \in Alone
        <4> QED  BY <2>3, ToldSame DEF NodeVars
      <3>3. \A d \in Alone : Untold(d) => Untold(d)'
        BY <2>3, <3>1 DEF NodeVars, Untold, Of, devpath, BaseOf, IsLog, Under
      <3> QED  BY <2>3, <3>1, <3>2, <3>3 DEF NodeVars, NodeInv, AllTold
    <2>4. CASE Loader
      BY <2>3, <2>4, LoaderSays
    <2>5. CASE UNCHANGED vars
      BY <2>3, <2>5 DEF vars, kernelVars, NodeVars
    <2> QED  BY <2>1, <2>2, <2>4, <2>5 DEF Next
  <1> QED  BY <1>1, <1>2

LEMMA InvIsCurrent == DevicesInv => DevicesCurrent
  <1> SUFFICES ASSUME DevicesInv PROVE DevicesCurrent
    OBVIOUS
  <1> USE DEF DevicesInv
  <1>1. TypeOK
    <2>1. \A i \in DOMAIN walk : walk[i].dir \in Dirs /\ walk[i].must \subseteq present
      <3>1. \A i \in DOMAIN walk : walk[i] \in Frames
        BY DEF Types, InitTypes
      <3> QED  BY <3>1 DEF Types, InitTypes, Frames
    <2>2. \A l \in DOMAIN loaders : loaders[l].at \in {"open", "start", "copy", "copied", "failed"}
      BY DEF Types, LoaderTypes, Loaders, Stages
    <2>3. \A x \in DOMAIN nodes : nodes[x].number <= 255
      BY DEF RightsInv
    <2>4. socket.err \in BOOLEAN /\ socket.congested \in BOOLEAN
      BY DEF Types, KernelTypes
    <2> QED  BY <2>1, <2>2, <2>3, <2>4 DEF TypeOK, Types, KernelTypes, InitTypes, LoaderTypes
  <1>2. ColdbootKeepsUp
    BY DEF KeepsUp, ColdbootKeepsUp
  <1>3. NodesCurrent
    <2> SUFFICES ASSUME pc = "poll", socket.queue = <<>>, lost = 0
                 PROVE  /\ DOMAIN nodes \subseteq {devpath(d) : d \in {x \in Dirs : Makes(x)}}
                        /\ \A d \in Alone :
                            /\ devpath(d) \in DOMAIN nodes <=> d \in present /\ HasNode(d)
                            /\ d \in present /\ HasNode(d) =>
                                LET node == nodes[devpath(d)]
                                    rule == get_device_perm(devpath(d))
                                IN  /\ node.number = number[d]
                                    /\ node.block = (Info[d].subsystem = "block")
                                    /\ scenario.late = <<>> => node.mode = rule.mode /\ node.owner = rule.owner
      BY DEF NodesCurrent
    <2>1. DOMAIN nodes \subseteq {devpath(d) : d \in {x \in Dirs : Makes(x)}}
      BY DEF RightsInv
    <2>2. walk = <<>> /\ roots = <<>>
      BY DEF WalkInv
    <2>3. Left = {} /\ Unpoked = {}
      BY <2>2 DEF Left, Unpoked
    <2>4. \A d : ~Untold(d)
      BY <2>3, UnderNone DEF Untold
    <2>5. \A d \in Alone : Shown(d) /\ Of(d) = {}
      BY <2>4 DEF NodeInv, AllTold, Told, Of
    <2>6. \A d \in Alone :
            /\ devpath(d) \in DOMAIN nodes <=> d \in present /\ HasNode(d)
            /\ devpath(d) \in DOMAIN nodes => nodes[devpath(d)].number = number[d]
      BY <2>5 DEF Shown, Fits
    <2> QED  BY <2>1, <2>6 DEF RightsInv
  <1> QED  BY <1>1, <1>2, <1>3 DEF DevicesCurrent

\* /dev follows sysfs: when init waits and has missed no event, it has exactly the
\* nodes of the devices there are, however they came and went during the walk
\* (do_coldboot, handle_device_event); and the walk alone never makes it miss one.
THEOREM DevFollowsSysfs == Spec => []DevicesCurrent
  BY InitInv, NextInv, InvIsCurrent, PTL DEF Spec

-----------------------------------------------------------------------------
(* The firmware a driver gets *)

LEMMA LoadersTyped ==
    ASSUME Types
    PROVE  /\ \A l \in DOMAIN loaders : loaders[l] \in Loaders /\ Sound(loaders[l], DOMAIN request)
           /\ DOMAIN request \subseteq present /\ present \subseteq Dirs
           /\ \A d \in DOMAIN request : request[d] \in Requests /\ IsRequest(d)
           /\ \A d \in Dirs : d \in present /\ IsRequest(d) <=> d \in DOMAIN request
           /\ shorts \in Nat /\ scenario.shorts \in Nat
  BY DevicesAssumption DEF Types, LoaderTypes, KernelTypes

\* A request that a step leaves alone, with its processes.
LEMMA ServedSame ==
    ASSUME NEW d, request'[d] = request[d], shorts' = 0 => shorts = 0,
           \A l \in DOMAIN loaders' : loaders'[l].of = d /\ loaders'[l].at # "open" =>
              l \in DOMAIN loaders /\ loaders'[l] = loaders[l],
           \A l \in DOMAIN loaders : loaders[l].of = d /\ loaders[l].at # "open" =>
              l \in DOMAIN loaders' /\ loaders'[l] = loaders[l],
           Served(d)
    PROVE  Served(d)'
  <1>1. \A l : Serves(l, d)' <=> Serves(l, d)
    BY DEF Serves
  <1>2. \A l : Serves(l, d) => (Stage(l, d) => Stage(l, d)')
    BY DEF Serves, Stage, Fresh
  <1>3. (\E l \in DOMAIN loaders' : Serves(l, d)') => \E l \in DOMAIN loaders : Serves(l, d)
    BY <1>1 DEF Serves
  <1>4. Fresh(d)' <=> Fresh(d)
    BY DEF Fresh
  <1>5. ASSUME request[d].loaders = 1, shorts = 0
        PROVE  \/ \E l \in DOMAIN loaders' : Serves(l, d)' /\ Stage(l, d)' /\ \A k \in DOMAIN loaders' : Serves(k, d)' => k = l
               \/ /\ ~\E l \in DOMAIN loaders' : Serves(l, d)'
                  /\ request'[d].completed
                  /\ request'[d].aborted \/ request'[d].data = Whole(Info[d].pages)
    <2>1. CASE \E l \in DOMAIN loaders : Serves(l, d) /\ Stage(l, d) /\ \A k \in DOMAIN loaders : Serves(k, d) => k = l
      <3>1. PICK l \in DOMAIN loaders : Serves(l, d) /\ Stage(l, d) /\ \A k \in DOMAIN loaders : Serves(k, d) => k = l
        BY <2>1
      <3>2. Serves(l, d)' /\ Stage(l, d)'
        BY <1>1, <1>2, <3>1
      <3>3. l \in DOMAIN loaders'
        BY <3>2 DEF Serves
      <3>4. \A k \in DOMAIN loaders' : Serves(k, d)' => k = l
        BY <1>1, <3>1 DEF Serves
      <3> QED  BY <3>2, <3>3, <3>4
    <2>2. CASE ~\E l \in DOMAIN loaders : Serves(l, d)
      BY <1>1, <1>3, <1>5, <2>2 DEF Served
    <2> QED  BY <1>5, <2>1, <2>2 DEF Served
  <1> QED  BY <1>3, <1>4, <1>5 DEF Served, Whole

LEMMA KernelFirmware ==
    ASSUME Types, FirmwareInv, Kernel
    PROVE  FirmwareInv'
  <1>1. shorts' = shorts
    BY DEF Kernel
  <1>2. PICK d \in Dirs : Plug(d) \/ Unplug(d) \/ Answered(d)
    BY DEF Kernel
  <1>3. CASE Plug(d)
    <2>1. /\ d \notin present /\ result' = result /\ loaders' = loaders
          /\ request' = IF IsRequest(d) THEN [x \in DOMAIN request \union {d} |-> IF x = d THEN Asked ELSE request[x]]
                        ELSE request
      BY <1>3 DEF Plug
    <2>2. \A x \in DOMAIN request : request'[x] = request[x] /\ x \in DOMAIN request'
      BY <2>1, LoadersTyped
    <2>3. \A x \in DOMAIN request : Served(x)'
      <3> TAKE x \in DOMAIN request
      <3> QED  BY <1>1, <2>1, <2>2, ServedSame DEF FirmwareInv
    <2>4. d \in DOMAIN request' /\ d \notin DOMAIN request => Served(d)'
      <3> SUFFICES ASSUME d \in DOMAIN request', d \notin DOMAIN request PROVE Served(d)'
        OBVIOUS
      <3>1. request'[d] = Asked
        BY <2>1
      <3>2. \A l \in DOMAIN loaders' : ~Serves(l, d)'
        BY <2>1, LoadersTyped DEF Serves, Sound
      <3>3. Fresh(d)' /\ request'[d].loaders = 0
        BY <3>1 DEF Fresh, Asked
      <3> QED  BY <3>2, <3>3 DEF Served
    <2>5. \A x \in DOMAIN request' : x \in DOMAIN request \/ x = d
      BY <2>1
    <2>6. FirmwareWhole'
      BY <1>1, <2>1 DEF FirmwareInv, FirmwareWhole
    <2> QED  BY <2>3, <2>4, <2>5, <2>6 DEF FirmwareInv
  <1>4. CASE Unplug(d) \/ Answered(d)
    <2>1. Removes(d)
      BY <1>4, RemovesSays
    <2>2. /\ request' = [x \in DOMAIN request \ {d} |-> request[x]]
          /\ loaders' = [p \in {x \in DOMAIN loaders : loaders[x].of # d \/ loaders[x].at = "open"} |-> loaders[p]]
      BY <2>1 DEF Removes, Without
    <2>3. \A x \in DOMAIN request' : Served(x)'
      <3> TAKE x \in DOMAIN request'
      <3>1. x \in DOMAIN request /\ x # d /\ request'[x] = request[x] /\ Served(x)
        BY <2>2 DEF FirmwareInv
      <3> QED  BY <1>1, <2>2, <3>1, ServedSame
    <2>4. FirmwareWhole'
      <3>1. CASE Unplug(d)
        BY <1>1, <3>1 DEF Unplug, FirmwareInv, FirmwareWhole
      <3>2. CASE Answered(d)
        <4> DEFINE r == request[d]
        <4> DEFINE new == [loaders |-> r.loaders,
                           data |-> IF r.aborted \/ ~r.completed \/ r.data = <<>> THEN Null ELSE r.data]
        <4>1. d \in DOMAIN request /\ result' = [x \in DOMAIN result \union {d} |-> IF x = d THEN new ELSE result[x]]
          BY <3>2 DEF Answered
        <4>2. new.loaders = r.loaders /\ (new.data # Null => ~r.aborted /\ r.completed /\ new.data = r.data)
          OBVIOUS
        <4> HIDE DEF new
        <4>3. new.data # Null /\ new.loaders = 1 /\ shorts = 0 => new.data = Whole(Info[d].pages)
          BY <4>1, <4>2 DEF FirmwareInv, Served, Stage, Fresh
        <4>4. \A x \in DOMAIN result' : (x = d /\ result'[x] = new) \/ (x \in DOMAIN result /\ result'[x] = result[x])
          BY <4>1
        <4> QED  BY <1>1, <4>3, <4>4 DEF FirmwareInv, FirmwareWhole, Whole
      <3> QED  BY <1>4, <3>1, <3>2
    <2> QED  BY <2>3, <2>4 DEF FirmwareInv
  <1> QED  BY <1>2, <1>3, <1>4

LEMMA InitFirmware ==
    ASSUME Types, FirmwareInv, init
    PROVE  FirmwareInv'
  <1>1. UNCHANGED <<request, result, shorts>>
    BY DEF init, device_init, coldboot, Poke, Readdir, Recv, boot, poll, UnchangedKernel, kernelVars
  <1>2. /\ \A l \in DOMAIN loaders : l \in DOMAIN loaders' /\ loaders'[l] = loaders[l]
        /\ \A l \in DOMAIN loaders' : l \in DOMAIN loaders \/ loaders'[l].at = "open"
    <2>1. CASE loaders' = loaders
      BY <2>1
    <2>2. CASE Recv /\ loaders' # loaders
      <3> DEFINE new == [of |-> Head(socket.queue).of, at |-> "open", pos |-> 0]
      <3>1. loaders' = [p \in DOMAIN loaders \union {NewLoader} |-> IF p = NewLoader THEN new ELSE loaders[p]]
        BY <2>2 DEF Recv, handle_firmware_event
      <3>2. NewLoader \notin DOMAIN loaders /\ new.at = "open"
        BY NewLoaderIsNew DEF Types, LoaderTypes
      <3> HIDE DEF new
      <3> QED  BY <3>1, <3>2
    <2> QED  BY <2>1, <2>2 DEF init, device_init, coldboot, Poke, Readdir, boot, poll
  <1>3. \A d \in DOMAIN request' : Served(d)'
    <2> TAKE d \in DOMAIN request'
    <2>1. Served(d)
      BY <1>1 DEF FirmwareInv
    <2> QED  BY <1>1, <1>2, <2>1, ServedSame
  <1>4. FirmwareWhole'
    BY <1>1 DEF FirmwareInv, FirmwareWhole
  <1> QED  BY <1>3, <1>4 DEF FirmwareInv

LEMMA WholeGrows ==
    ASSUME NEW n \in Nat
    PROVE  Whole(0) = <<>> /\ Written(Whole(n), n, n + 1) = Whole(n + 1)
  <1>1. Len(Whole(n)) = n /\ \A i \in 1..n : Whole(n)[i] = i
    BY DEF Whole
  <1>2. Written(Whole(n), n, n + 1) =
          [i \in 1..n+1 |-> IF i = n + 1 THEN n + 1 ELSE IF i <= n THEN Whole(n)[i] ELSE Junk]
    BY <1>1 DEF Written
  <1>3. \A i \in 1..n+1 : i = n + 1 \/ (i \in 1..n /\ i <= n)
    OBVIOUS
  <1>4. [i \in 1..n+1 |-> IF i = n + 1 THEN n + 1 ELSE IF i <= n THEN Whole(n)[i] ELSE Junk] = [i \in 1..n+1 |-> i]
    BY <1>1, <1>3
  <1>5. Whole(0) = <<>>
    BY DEF Whole
  <1> QED  BY <1>2, <1>4, <1>5 DEF Whole

\* A step of one process is about its own request only.
LEMMA OthersServed ==
    ASSUME Types, FirmwareInv, NEW l \in DOMAIN loaders, UnchangedInit, shorts' = 0 => shorts = 0,
           NEW d, d = loaders[l].of, DOMAIN request' = DOMAIN request,
           \A x \in DOMAIN request : x # d => request'[x] = request[x],
           Exits(l) \/ \E t \in Loaders : t.of = d /\ Goes(l, t),
           d \in DOMAIN request => Served(d)'
    PROVE  FirmwareInv'
  <1>1. /\ \A k \in DOMAIN loaders : k # l => k \in DOMAIN loaders' /\ loaders'[k] = loaders[k]
        /\ \A k \in DOMAIN loaders' : k \in DOMAIN loaders /\ (k = l => loaders'[k].of = d)
    BY DEF Exits, Goes
  <1>2. ASSUME NEW x \in DOMAIN request, x # d
        PROVE  Served(x)'
    <2>1. request'[x] = request[x] /\ Served(x)
      BY <1>2 DEF FirmwareInv
    <2> QED  BY <1>1, <1>2, <2>1, ServedSame
  <1>3. FirmwareWhole'
    BY DEF FirmwareInv, FirmwareWhole, UnchangedInit
  <1> QED  BY <1>2, <1>3 DEF FirmwareInv

LEMMA LoaderFirmware ==
    ASSUME Types, FirmwareInv, Loader
    PROVE  FirmwareInv'
  <1>1. PICK l \in DOMAIN loaders : OpenFiles(l) \/ Starts(l) \/ Copies(l) \/ Finishes(l)
    BY DEF Loader
  <1> DEFINE s == loaders[l]
  <1>0. PICK d : d = loaders[l].of
    OBVIOUS
  <1> DEFINE r == request[d]
  <1>2. UnchangedInit
    BY DEF Loader, OpenFiles, Starts, Copies, Finishes
  <1>3. s \in Loaders /\ Sound(s, DOMAIN request) /\ s.pos \in Nat
    BY LoadersTyped DEF Loaders
  <1> USE <1>0
  <1>4. shorts \in Nat
    BY LoadersTyped
  <1>5. d \in DOMAIN request => r \in Requests /\ Served(d) /\ r.loaders \in Nat
    BY LoadersTyped DEF FirmwareInv, Requests
  <1>6. s.at # "open" => d \in DOMAIN request /\ Info[d].pages \in Nat /\ Serves(l, d)
    BY <1>3 DEF Sound, Serves
  <1>7. \* A process serves the request alone when it was the only one that opened its files.
        s.at # "open" /\ r.loaders = 1 /\ shorts = 0 =>
           Stage(l, d) /\ \A k \in DOMAIN loaders : Serves(k, d) => k = l
    BY <1>5, <1>6 DEF Served
  <1>8. s.at # "open" => r.loaders # 0
    BY <1>5, <1>6 DEF Served
  <1>9. \A t \in Loaders : t.of = d /\ Goes(l, t) =>
           /\ DOMAIN loaders' = DOMAIN loaders /\ loaders'[l] = t
           /\ \A k \in DOMAIN loaders : k # l => (Serves(k, d)' <=> Serves(k, d))
    BY DEF Goes, Serves
  <1>10. Exits(l) => \A k : Serves(k, d)' <=> Serves(k, d) /\ k # l
    BY DEF Exits, Serves
  <1>11. CASE OpenFiles(l)
    <2>1. shorts' = shorts /\ s.at = "open" /\ s.pos = 0
      BY <1>3, <1>11 DEF OpenFiles, Sound
    <2>2. CASE /\ d \in DOMAIN request /\ Info[d].pages # Null /\ Goes(l, [s EXCEPT !.at = "start"])
               /\ request' = [request EXCEPT ![d].loaders = @ + 1]
      <3> DEFINE t == [s EXCEPT !.at = "start"]
      <3>1. Goes(l, t) /\ request' = [request EXCEPT ![d].loaders = @ + 1]
        BY <2>2
      <3>2. t \in Loaders /\ t.of = d /\ t.at = "start" /\ t.pos = 0
        BY <1>3, <2>1 DEF Loaders, Stages
      <3>3. /\ DOMAIN request' = DOMAIN request /\ \A x \in DOMAIN request : x # d => request'[x] = request[x]
            /\ request'[d] = [r EXCEPT !.loaders = @ + 1]
        BY <2>2, <3>1
      <3> HIDE DEF t
      <3>4. /\ request'[d].loaders = r.loaders + 1 /\ request'[d].data = r.data /\ request'[d].loading = r.loading
            /\ request'[d].completed = r.completed
        BY <1>5, <2>2, <3>3 DEF Requests
      <3>5. Served(d)'
        <4> SUFFICES ASSUME r.loaders = 0
                     PROVE  \E k \in DOMAIN loaders' : Serves(k, d)' /\ Stage(k, d)' /\ \A j \in DOMAIN loaders' : Serves(j, d)' => j = k
          BY <1>5, <2>2, <3>4 DEF Served
        <4>1. Fresh(d) /\ ~\E k \in DOMAIN loaders : Serves(k, d)
          BY <1>5, <2>2 DEF Served
        <4>2. DOMAIN loaders' = DOMAIN loaders /\ loaders'[l] = t
              /\ \A k \in DOMAIN loaders : k # l => ~Serves(k, d)'
          BY <1>9, <3>1, <3>2, <4>1
        <4>3. Serves(l, d)'
          BY <3>2, <4>2 DEF Serves
        <4>4. Stage(l, d)'
          BY <3>2, <3>4, <4>1, <4>2 DEF Stage, Fresh
        <4> QED  BY <4>2, <4>3, <4>4
      <3> QED  BY <1>2, <2>1, <3>1, <3>2, <3>3, <3>5, <1>0, OthersServed
    <2>3. CASE Exits(l) /\ request' = request
      <3>1. Exits(l) /\ request' = request
        BY <2>3
      <3>2. d \in DOMAIN request => Served(d)'
        <4> SUFFICES ASSUME d \in DOMAIN request PROVE Served(d)'
          OBVIOUS
        <4>1. \A k \in DOMAIN loaders' : k \in DOMAIN loaders /\ loaders'[k] = loaders[k]
          BY <3>1 DEF Exits
        <4>2. \A k \in DOMAIN loaders : k # l => k \in DOMAIN loaders' /\ loaders'[k] = loaders[k]
          BY <3>1 DEF Exits
        <4> QED  BY <1>5, <2>1, <3>1, <4>1, <4>2, ServedSame
      <3> QED  BY <1>2, <2>1, <3>1, <3>2, <1>0, OthersServed
    <2> QED  BY <1>11, <2>2, <2>3 DEF OpenFiles
  <1>12. CASE Starts(l)
    <2> DEFINE t == [s EXCEPT !.at = "copy"]
    <2>1. /\ shorts' = shorts /\ s.at = "start" /\ Goes(l, t)
          /\ request' = [request EXCEPT ![d] = [r EXCEPT !.loading = TRUE, !.data = <<>>]]
      <3>1. request' = [request EXCEPT ![d].loading = TRUE, ![d].data = <<>>]
        BY <1>12 DEF Starts
      <3> QED  BY <1>12, <3>1 DEF Starts
    <2>2. t \in Loaders /\ t.of = d /\ t.at = "copy" /\ t.pos = s.pos
      BY <1>3 DEF Loaders, Stages
    <2>3. /\ DOMAIN request' = DOMAIN request /\ \A x \in DOMAIN request : x # d => request'[x] = request[x]
          /\ request'[d] = [r EXCEPT !.loading = TRUE, !.data = <<>>]
      BY <1>6, <2>1
    <2> HIDE DEF t
    <2>4. /\ request'[d].loaders = r.loaders /\ request'[d].data = <<>> /\ request'[d].loading
          /\ request'[d].completed = r.completed
      BY <1>5, <1>6, <2>1, <2>3 DEF Requests
    <2>5. Served(d)'
      <3> SUFFICES ASSUME r.loaders = 1, shorts = 0
                   PROVE  \E k \in DOMAIN loaders' : Serves(k, d)' /\ Stage(k, d)' /\ \A j \in DOMAIN loaders' : Serves(j, d)' => j = k
        BY <1>8, <2>1, <2>4 DEF Served
      <3>1. Stage(l, d) /\ \A k \in DOMAIN loaders : Serves(k, d) => k = l
        BY <1>7, <2>1
      <3>2. s.pos = 0 /\ ~r.completed
        BY <2>1, <3>1 DEF Stage, Fresh
      <3>3. DOMAIN loaders' = DOMAIN loaders /\ loaders'[l] = t
            /\ \A k \in DOMAIN loaders : k # l => ~Serves(k, d)'
        BY <1>9, <2>1, <2>2, <3>1
      <3>4. Serves(l, d)'
        BY <2>2, <3>3 DEF Serves
      <3>5. Whole(0) = <<>>
        BY WholeGrows
      <3>6. Stage(l, d)'
        BY <2>2, <2>4, <3>2, <3>3, <3>5 DEF Stage, Whole
      <3> QED  BY <3>3, <3>4, <3>6
    <2> QED  BY <1>2, <2>1, <2>2, <2>3, <2>5, <1>0, OthersServed
  <1>13. CASE Copies(l)
    <2>1. s.at = "copy"
      BY <1>13 DEF Copies
    <2>2. ASSUME NEW page, request' = [request EXCEPT ![d].data = Written(@, s.pos, page)],
                 Goes(l, [s EXCEPT !.pos = @ + 1]), s.pos < Info[d].pages,
                 (page = s.pos + 1 /\ shorts' = shorts) \/ shorts' = shorts + 1
          PROVE  FirmwareInv'
      <3> DEFINE t == [s EXCEPT !.pos = @ + 1]
      <3>1. t \in Loaders /\ t.of = d /\ t.at = "copy" /\ t.pos = s.pos + 1
        BY <1>3, <2>1 DEF Loaders
      <3>2. /\ DOMAIN request' = DOMAIN request /\ \A x \in DOMAIN request : x # d => request'[x] = request[x]
            /\ request'[d] = [r EXCEPT !.data = Written(r.data, s.pos, page)]
        BY <1>6, <2>1, <2>2
      <3> HIDE DEF t
      <3>3. /\ request'[d].loaders = r.loaders /\ request'[d].data = Written(r.data, s.pos, page)
            /\ request'[d].loading = r.loading /\ request'[d].completed = r.completed
        BY <1>5, <1>6, <2>1, <3>2 DEF Requests
      <3>4. Goes(l, t)
        BY <2>2 DEF t
      <3>5. Served(d)'
        <4> SUFFICES ASSUME r.loaders = 1, shorts' = 0
                     PROVE  \E k \in DOMAIN loaders' : Serves(k, d)' /\ Stage(k, d)' /\ \A j \in DOMAIN loaders' : Serves(j, d)' => j = k
          BY <1>8, <2>1, <3>3 DEF Served
        <4>1. shorts = 0 /\ page = s.pos + 1
          BY <1>4, <2>2
        <4>2. Stage(l, d) /\ \A k \in DOMAIN loaders : Serves(k, d) => k = l
          BY <1>7, <2>1, <4>1
        <4>3. r.loading /\ ~r.completed /\ r.data = Whole(s.pos)
          BY <2>1, <4>2 DEF Stage
        <4>4. request'[d].data = Whole(s.pos + 1)
          BY <1>3, <3>3, <4>1, <4>3, WholeGrows
        <4>5. DOMAIN loaders' = DOMAIN loaders /\ loaders'[l] = t
              /\ \A k \in DOMAIN loaders : k # l => ~Serves(k, d)'
          BY <1>9, <3>1, <3>4, <4>2
        <4>6. Serves(l, d)'
          BY <3>1, <4>5 DEF Serves
        <4>7. Stage(l, d)'
          BY <3>1, <3>3, <4>3, <4>4, <4>5 DEF Stage, Whole
        <4> QED  BY <4>5, <4>6, <4>7
      <3>6. shorts' = 0 => shorts = 0
        BY <1>4, <2>2
      <3> QED  BY <1>2, <3>1, <3>2, <3>4, <3>5, <3>6, <1>0, OthersServed
    <2>3. ASSUME NEW w \in {"failed", "copied"}, Goes(l, [s EXCEPT !.at = w]), request' = request, shorts' = shorts,
                 w = "copied" => s.pos = Info[d].pages
          PROVE  FirmwareInv'
      <3> DEFINE t == [s EXCEPT !.at = w]
      <3>1. t \in Loaders /\ t.of = d /\ t.at = w /\ t.pos = s.pos
        BY <1>3 DEF Loaders, Stages
      <3> HIDE DEF t
      <3>2. Goes(l, t)
        BY <2>3 DEF t
      <3>3. Served(d)'
        <4> SUFFICES ASSUME r.loaders = 1, shorts = 0
                     PROVE  \E k \in DOMAIN loaders' : Serves(k, d)' /\ Stage(k, d)' /\ \A j \in DOMAIN loaders' : Serves(j, d)' => j = k
          BY <1>8, <2>1, <2>3 DEF Served
        <4>1. Stage(l, d) /\ \A k \in DOMAIN loaders : Serves(k, d) => k = l
          BY <1>7, <2>1
        <4>2. r.loading /\ ~r.completed /\ r.data = Whole(s.pos)
          BY <2>1, <4>1 DEF Stage
        <4>3. DOMAIN loaders' = DOMAIN loaders /\ loaders'[l] = t
              /\ \A k \in DOMAIN loaders : k # l => ~Serves(k, d)'
          BY <1>9, <3>1, <3>2, <4>1
        <4>4. Serves(l, d)'
          BY <3>1, <4>3 DEF Serves
        <4>5. Stage(l, d)'
          BY <2>3, <3>1, <4>2, <4>3 DEF Stage, Whole
        <4> QED  BY <4>3, <4>4, <4>5
      <3> QED  BY <1>2, <2>3, <3>1, <3>2, <3>3, <1>0, OthersServed
    <2>4. \/ \E page : /\ request' = [request EXCEPT ![d].data = Written(@, s.pos, page)]
                       /\ Goes(l, [s EXCEPT !.pos = @ + 1]) /\ s.pos < Info[d].pages
                       /\ (page = s.pos + 1 /\ shorts' = shorts) \/ shorts' = shorts + 1
          \/ \E w \in {"failed", "copied"} :
                /\ Goes(l, [s EXCEPT !.at = w]) /\ request' = request /\ shorts' = shorts
                /\ w = "copied" => s.pos = Info[d].pages
      BY <1>13 DEF Copies
    <2> QED  BY <2>2, <2>3, <2>4
  <1>14. CASE Finishes(l)
    <2> DEFINE done == s.at = "copied" /\ r.loading
    <2>1. /\ shorts' = shorts /\ s.at \in {"copied", "failed"} /\ Exits(l)
          /\ request' = [request EXCEPT ![d].loading = FALSE, ![d].completed = TRUE, ![d].aborted = @ \/ ~done]
      BY <1>14 DEF Finishes
    <2>2. /\ DOMAIN request' = DOMAIN request /\ \A x \in DOMAIN request : x # d => request'[x] = request[x]
          /\ request'[d] = [r EXCEPT !.loading = FALSE, !.completed = TRUE, !.aborted = r.aborted \/ ~done]
      BY <1>6, <2>1
    <2>3. /\ request'[d].loaders = r.loaders /\ request'[d].data = r.data /\ request'[d].completed
          /\ request'[d].aborted = (r.aborted \/ ~done)
      <3> HIDE DEF done
      <3> QED  BY <1>5, <1>6, <2>1, <2>2 DEF Requests
    <2>4. Served(d)'
      <3> SUFFICES ASSUME r.loaders = 1, shorts = 0
                   PROVE  /\ ~\E k \in DOMAIN loaders' : Serves(k, d)'
                          /\ request'[d].aborted \/ request'[d].data = Whole(Info[d].pages)
        BY <1>8, <2>1, <2>3 DEF Served, Whole
      <3>1. Stage(l, d) /\ \A k \in DOMAIN loaders : Serves(k, d) => k = l
        BY <1>7, <2>1
      <3>2. ~\E k \in DOMAIN loaders' : Serves(k, d)'
        BY <1>10, <2>1, <3>1 DEF Serves
      <3>3. request'[d].aborted \/ r.data = Whole(Info[d].pages)
        <4>1. CASE s.at = "failed"
          <5>1. ~done
            BY <4>1
          <5> QED  BY <2>3, <5>1
        <4>2. CASE s.at = "copied"
          BY <3>1, <4>2 DEF Stage
        <4> QED  BY <2>1, <4>1, <4>2
      <3> QED  BY <2>3, <3>2, <3>3
    <2> QED  BY <1>2, <2>1, <2>2, <2>4, <1>0, OthersServed
  <1> QED  BY <1>1, <1>11, <1>12, <1>13, <1>14

LEMMA FirmwareKept ==
    ASSUME Types, FirmwareInv, [Next]_vars
    PROVE  FirmwareInv'
  <1>1. CASE UNCHANGED vars
    <2>1. UNCHANGED <<request, loaders, result, shorts>>
      BY <1>1 DEF vars, kernelVars
    <2>2. \A d \in DOMAIN request' : Served(d)'
      <3> TAKE d \in DOMAIN request'
      <3>1. Served(d)
        BY <2>1 DEF FirmwareInv
      <3> QED  BY <2>1, <3>1, ServedSame
    <2> QED  BY <2>1, <2>2 DEF FirmwareInv, FirmwareWhole
  <1> QED  BY <1>1, KernelFirmware, InitFirmware, LoaderFirmware DEF Next

\* A driver that got a firmware of one process, with no short write, got the whole
\* file in order, whatever failed and whoever came and went meanwhile
\* (process_firmware_event, load_firmware).
THEOREM FirmwareIsWhole == Spec => []FirmwareWhole
  <1>1. Init => Types /\ FirmwareInv
    <2> SUFFICES ASSUME Init PROVE Types /\ FirmwareInv
      OBVIOUS
    <2>1. Types
      BY InitIsTyped
    <2>2. \A d \in DOMAIN request : Served(d)
      <3> TAKE d \in DOMAIN request
      <3>1. request[d] = Asked /\ \A l \in DOMAIN loaders : ~Serves(l, d)
        BY DEF Init
      <3> QED  BY <3>1 DEF Served, Asked, Fresh
    <2>3. FirmwareWhole
      BY DEF Init, FirmwareWhole
    <2> QED  BY <2>1, <2>2, <2>3 DEF FirmwareInv
  <1>2. Types /\ FirmwareInv /\ [Next]_vars => Types' /\ FirmwareInv'
    BY TypesKept, FirmwareKept
  <1>3. FirmwareInv => FirmwareWhole
    BY DEF FirmwareInv
  <1> QED  BY <1>1, <1>2, <1>3, PTL DEF Spec
=============================================================================
