-------------------------------- MODULE Devices --------------------------------
(***************************************************************************)
(* devices.c: the device manager of init.  It makes a node in /dev for each *)
(* device the kernel announces on a netlink socket, asks the kernel to      *)
(* announce again those that were there before the socket (coldboot), and   *)
(* forks a process for each firmware a driver asks for.                     *)
(*                                                                         *)
(* The kernel plugs and unplugs devices meanwhile, and drops events when    *)
(* the socket is full.  A device is a directory of sysfs; a node a base     *)
(* directory and a name; a firmware file a number of pages.                 *)
(***************************************************************************)
EXTENDS Naturals, Sequences, FiniteSets

CONSTANTS
    Null,
    Dirs,        \* directories of sysfs
    Parent,      \* of each
    Roots,       \* /sys/class, /sys/block, /sys/devices
    Info,        \* what the events of a directory say: see below
    Numbers,     \* device numbers; those above 255 get no node
    devperms,    \* the rules built in: [covers, mode, owner], in order
    MAX_QEMU_PERM, \* 6
    Default,     \* the rule of a node no other covers: 0600, root
    Scenarios    \* the instances: see below

\* Info[d]: Null without an uevent file, else the subsystem and the name, whether
\* the event has numbers (and a name of at most 64 characters: without either init
\* does nothing) and is longer than UEVENT_MSG_LEN, and the pages of the firmware file
\* (Null without it).
Infos == [subsystem : STRING, name : STRING, log : BOOLEAN, numbered : BOOLEAN, long : BOOLEAN,
          pages : Nat \union {Null}]
Rules == [covers : SUBSET (STRING \X STRING), mode : STRING, owner : STRING]
IsDevice(d) == Info[d] # Null
IsRequest(d) == IsDevice(d) /\ Info[d].subsystem = "firmware"

\* An instance: the directories there at first, and their number; those that may
\* come and go, and how often; the room in the socket; the rules of the kernel command line
\* and of the device commands, early and late; how many calls fail and how many
\* writes are short.
ASSUME DevicesAssumption ==
    /\ Null \notin Dirs /\ Null \notin Infos
    /\ Roots \in Seq(Dirs)
    /\ Parent \in [Dirs -> Dirs \union {Null}]
    /\ Info \in [Dirs -> Infos \union {Null}]
    /\ \A d \in Dirs : Parent[d] # Null => ~IsRequest(Parent[d])
    /\ Numbers \subseteq Nat
    /\ \A s \in Scenarios :
        /\ s.there \subseteq Dirs /\ s.hot \subseteq Dirs
        /\ \A d \in s.there : Parent[d] \in s.there \union {Null}
        /\ s.partners \in Seq(Rules) /\ s.late \in Seq(Rules)
        /\ s.number \in Numbers /\ s.changes \in Nat /\ s.capacity \in Nat \ {0} /\ s.faults \in Nat /\ s.shorts \in Nat

VARIABLES
    scenario,
    present, number,          \* sysfs, and the number of each directory's device
    changes,                  \* events the kernel has sent by itself
    socket,                   \* [queue, err, congested]: the uevent socket
    lost,                     \* history: events dropped
    pc, roots, walk,          \* init; the roots and the directories it walks
    rules,                    \* devperms_partners
    nodes,                    \* /dev: of each node, its number, kind, mode and owner
    request,                  \* the firmware request of each directory that has one
    loaders,                  \* the processes that load firmware, by number
    result,                   \* history: what the driver got, and of how many loaders
    faults, shorts            \* failed calls and short writes so far

kernelVars == <<present, number, changes, request, result>>
vars == <<scenario, kernelVars, socket, lost, pc, roots, walk, rules, nodes, loaders, faults, shorts>>

NoNodes == [p \in {} |-> Null]
Children(d) == {c \in present : Parent[c] = d}
Asked == [loading |-> FALSE, completed |-> FALSE, aborted |-> FALSE, data |-> <<>>, loaders |-> 0]

Init ==
    /\ scenario \in Scenarios
    /\ present = scenario.there
    /\ number = [d \in Dirs |-> scenario.number]
    /\ changes = 0
    /\ socket = [queue |-> <<>>, err |-> FALSE, congested |-> FALSE] /\ lost = 0
    /\ pc = "early" /\ roots = <<>> /\ walk = <<>>
    /\ rules = <<>> /\ nodes = NoNodes
    /\ request = [d \in {r \in present : IsRequest(r)} |-> Asked]
    /\ loaders = [p \in {} |-> Null] /\ result = [d \in {} |-> Null]
    /\ faults = 0 /\ shorts = 0

-----------------------------------------------------------------------------
(* The kernel *)

Listening == pc # "early"
Fails == faults < scenario.faults /\ faults' = faults + 1

\* A directory without an uevent file comes and goes in silence.
Event(action, d, n) == [action |-> action, of |-> d, number |-> n]
Sends(event) ==
    IF Listening /\ IsDevice(event.of)
    THEN IF Len(socket.queue) < scenario.capacity /\ ~socket.congested
         THEN socket' = [socket EXCEPT !.queue = Append(@, event)] /\ UNCHANGED lost
         ELSE socket' = [socket EXCEPT !.err = @ \/ ~socket.congested, !.congested = TRUE] /\ lost' = lost + 1
    ELSE UNCHANGED <<socket, lost>>

Without(f, d) == [x \in DOMAIN f \ {d} |-> f[x]]

Plug(d) ==
    /\ changes < scenario.changes /\ changes' = changes + 1
    /\ d \in scenario.hot \ present /\ Parent[d] \in present
    /\ present' = present \union {d}
    /\ \E n \in IF IsDevice(d) /\ Info[d].numbered THEN Numbers ELSE {number[d]} :
        /\ number' = [number EXCEPT ![d] = n]
        /\ Sends(Event("add", d, n))
    /\ request' = IF IsRequest(d) THEN [x \in DOMAIN request \union {d} |-> IF x = d THEN Asked ELSE request[x]]
                  ELSE request
    /\ UNCHANGED <<result, walk, loaders>>

\* The directory goes, also from under a walk of init; what a process still
\* writes to its files has no effect.
Removes(d) ==
    /\ present' = present \ {d}
    /\ walk' = [i \in DOMAIN walk |-> [walk[i] EXCEPT !.must = @ \ {d}]]
    /\ Sends(Event("remove", d, number[d]))
    /\ request' = Without(request, d)
    /\ loaders' = [p \in {x \in DOMAIN loaders : loaders[x].of # d \/ loaders[x].at = "open"} |-> loaders[p]]
    /\ UNCHANGED number

Unplug(d) ==
    /\ changes < scenario.changes /\ changes' = changes + 1
    /\ d \in scenario.hot \intersect present /\ Children(d) = {} /\ ~IsRequest(d)
    /\ Removes(d)
    /\ UNCHANGED result

\* The driver that asked goes on with what it got, or has waited long enough.
Answered(d) ==
    /\ d \in DOMAIN request
    /\ request[d].completed \/ changes < scenario.changes
    /\ changes' = changes + 1
    /\ LET r == request[d]
       IN  result' = [x \in DOMAIN result \union {d} |->
                        IF x = d THEN [loaders |-> r.loaders,
                                       data |-> IF r.aborted \/ ~r.completed \/ r.data = <<>>
                                                THEN Null ELSE r.data]
                        ELSE result[x]]
    /\ Removes(d)

Kernel ==
    /\ UNCHANGED <<scenario, pc, roots, rules, nodes, faults, shorts>>
    /\ \E d \in Dirs : Plug(d) \/ Unplug(d) \/ Answered(d)

-----------------------------------------------------------------------------
(* Nodes *)

Bases == [block |-> "/dev/block/", graphics |-> "/dev/graphics/", oncrpc |-> "/dev/oncrpc/",
          adsp |-> "/dev/adsp/", msm_camera |-> "/dev/msm_camera/", input |-> "/dev/input/",
          mtd |-> "/dev/mtd/", sound |-> "/dev/snd/"]

\* A misc device named "log_" and something is named that in /dev/log.
IsLog(info) == info.subsystem = "misc" /\ info.log
BaseOf(info) ==
    IF info.subsystem \in DOMAIN Bases THEN Bases[info.subsystem]
    ELSE IF IsLog(info) THEN "/dev/log/" ELSE "/dev/"
devpath(d) == <<BaseOf(Info[d]), Info[d].name>>

\* The rules of the emulator's command line first, at most MAX_QEMU_PERM; then
\* those built in; then those of init.rc.
qemu_perms == SubSeq(scenario.qemu, 1, IF Len(scenario.qemu) < MAX_QEMU_PERM THEN Len(scenario.qemu) ELSE MAX_QEMU_PERM)

get_device_perm(path) ==
    LET all == qemu_perms \o devperms \o rules
        found == {i \in DOMAIN all : path \in all[i].covers}
    IN  IF found = {} THEN Default ELSE all[CHOOSE i \in found : \A j \in found : i <= j]

\* When the node is there mknod() fails, and chown() still gives it the owner of
\* the rule.
make_device(d, n) ==
    IF n > 255 THEN nodes
    ELSE LET p == devpath(d)
             rule == get_device_perm(p)
             node == IF p \in DOMAIN nodes THEN [nodes[p] EXCEPT !.owner = rule.owner]
                     ELSE [number |-> n, block |-> Info[d].subsystem = "block",
                           mode |-> rule.mode, owner |-> rule.owner]
         IN  [x \in DOMAIN nodes \union {p} |-> IF x = p THEN node ELSE nodes[x]]

\* Mutant: the node of a device that goes is left.
handle_device_event_KeepsNode(event) ==
    IF ~Info[event.of].numbered THEN nodes
    ELSE IF event.action = "add" THEN make_device(event.of, event.number)
    ELSE nodes
handle_device_event(event) ==
    IF ~Info[event.of].numbered THEN nodes
    ELSE IF event.action = "add" THEN make_device(event.of, event.number)
    ELSE Without(nodes, devpath(event.of))

\* Without the process nothing is loaded.
NewLoader == CHOOSE p \in 1..Cardinality(DOMAIN loaders) + 1 : p \notin DOMAIN loaders
handle_firmware_event(event) ==
    IF IsRequest(event.of) /\ event.action = "add"
    THEN \/ /\ loaders' = [p \in DOMAIN loaders \union {NewLoader} |->
                             IF p = NewLoader THEN [of |-> event.of, at |-> "open", pos |-> 0] ELSE loaders[p]]
            /\ UNCHANGED faults
         \/ Fails /\ UNCHANGED loaders
    ELSE UNCHANGED <<loaders, faults>>

-----------------------------------------------------------------------------
(* init *)

UnchangedKernel == UNCHANGED <<kernelVars, shorts>>

\* handle_device_fd: one turn of its loop, until recv() fails.  An error of the
\* socket comes before the events that are in it.
Recv ==
    /\ pc \in {"drain", "handle"}
    /\ IF socket.err \/ socket.queue = <<>>
       THEN /\ socket' = [socket EXCEPT !.err = FALSE]
            /\ pc' = IF pc = "drain" THEN "walk" ELSE "poll"
            /\ UNCHANGED <<nodes, loaders, faults>>
       ELSE LET event == Head(socket.queue)
                rest == Tail(socket.queue)
            IN  /\ socket' = [socket EXCEPT !.queue = rest, !.congested = @ /\ rest # <<>>]
                /\ IF Info[event.of].long THEN UNCHANGED <<nodes, loaders, faults>>
                   ELSE nodes' = handle_device_event(event) /\ handle_firmware_event(event)
                /\ UNCHANGED pc
    /\ UNCHANGED <<lost, roots, walk, rules>> /\ UnchangedKernel

\* The command line, and the device commands of early-init, come before
\* device_init.
\* Mutant: only two of the trees are walked.
device_init_NoClass ==
    /\ pc = "early"
    /\ rules' = scenario.partners
    /\ roots' = Tail(Roots)
    /\ pc' = "walk"
    /\ UNCHANGED <<socket, lost, walk, nodes, loaders, faults>> /\ UnchangedKernel
device_init ==
    /\ pc = "early"
    /\ rules' = scenario.partners
    /\ roots' = Roots
    /\ pc' = "walk"
    /\ UNCHANGED <<socket, lost, walk, nodes, loaders, faults>> /\ UnchangedKernel

Frame(d) == [dir |-> d, poked |-> FALSE, seen |-> {}, must |-> Children(d)]
Top == walk[1]

coldboot ==
    /\ pc = "walk" /\ walk = <<>>
    /\ IF roots = <<>> THEN pc' = "boot" /\ UNCHANGED <<roots, walk>>
       ELSE /\ roots' = Tail(roots)
            /\ walk' = IF Head(roots) \in present THEN <<Frame(Head(roots))>> ELSE <<>>
            /\ UNCHANGED pc
    /\ UNCHANGED <<socket, lost, rules, nodes, loaders, faults>> /\ UnchangedKernel

\* "add" is written to the uevent file, if there is one, and the socket drained.
Poke ==
    /\ pc = "walk" /\ walk # <<>> /\ ~Top.poked
    /\ walk' = [walk EXCEPT ![1].poked = TRUE]
    /\ IF Top.dir \in present /\ IsDevice(Top.dir)
       THEN pc' = "drain" /\ Sends(Event("add", Top.dir, number[Top.dir]))
       ELSE UNCHANGED <<pc, socket, lost>>
    /\ UNCHANGED <<roots, rules, nodes, loaders, faults>> /\ UnchangedKernel

\* Mutant: the walk ends with the first child.
Readdir_First ==
    /\ pc = "walk" /\ walk # <<>> /\ Top.poked
    /\ \/ /\ Top.seen = {}
          /\ \E c \in Children(Top.dir) :
                walk' = <<Frame(c), [Top EXCEPT !.seen = @ \union {c}]>> \o Tail(walk)
       \/ (Top.must = {} \/ Top.seen # {}) /\ walk' = Tail(walk)
    /\ UNCHANGED <<pc, socket, lost, roots, rules, nodes, loaders, faults>> /\ UnchangedKernel
\* readdir() returns the directories that stay, in any order, and may miss one
\* that comes meanwhile.
Readdir ==
    /\ pc = "walk" /\ walk # <<>> /\ Top.poked
    /\ \/ \E c \in Children(Top.dir) \ Top.seen :
            walk' = <<Frame(c), [Top EXCEPT !.seen = @ \union {c}]>> \o Tail(walk)
       \/ Top.must \subseteq Top.seen /\ walk' = Tail(walk)
    /\ UNCHANGED <<pc, socket, lost, roots, rules, nodes, loaders, faults>> /\ UnchangedKernel

\* The other actions of init.rc, which may add rules for nodes there already.
boot ==
    /\ pc = "boot"
    /\ rules' = rules \o scenario.late
    /\ pc' = "poll"
    /\ UNCHANGED <<socket, lost, roots, walk, nodes, loaders, faults>> /\ UnchangedKernel

\* An error of the socket is POLLERR, which is not POLLIN alone.
poll ==
    /\ pc = "poll" /\ socket.queue # <<>> /\ ~socket.err
    /\ pc' = "handle"
    /\ UNCHANGED <<socket, lost, roots, walk, rules, nodes, loaders, faults>> /\ UnchangedKernel

init ==
    UNCHANGED scenario /\ (device_init \/ coldboot \/ Poke \/ Readdir \/ Recv \/ boot \/ poll)

-----------------------------------------------------------------------------
(* A process that loads firmware: process_firmware_event, load_firmware. *)

Goes(l, s) == loaders' = [loaders EXCEPT ![l] = s]
Exits(l) == loaders' = [p \in DOMAIN loaders \ {l} |-> loaders[p]]
UnchangedInit == UNCHANGED <<scenario, present, number, changes, socket, lost, pc, roots, walk, rules, nodes, result>>

\* The files of a request that has been answered are gone.  Any open(), asprintf()
\* or fstat() may fail, and the driver is told nothing.
OpenFiles(l) ==
    /\ loaders[l].at = "open"
    /\ LET d == loaders[l].of
       IN  \/ /\ d \in DOMAIN request /\ Info[d].pages # Null
              /\ Goes(l, [loaders[l] EXCEPT !.at = "start"])
              /\ request' = [request EXCEPT ![d].loaders = @ + 1]
              /\ UNCHANGED faults
           \/ /\ IF d \in DOMAIN request /\ Info[d].pages # Null THEN Fails ELSE UNCHANGED faults
              /\ Exits(l) /\ UNCHANGED request
    /\ UNCHANGED shorts /\ UnchangedInit

Starts(l) ==
    /\ loaders[l].at = "start"
    /\ Goes(l, [loaders[l] EXCEPT !.at = "copy"])
    /\ request' = [request EXCEPT ![loaders[l].of].loading = TRUE, ![loaders[l].of].data = <<>>]
    /\ UNCHANGED <<faults, shorts>> /\ UnchangedInit

Junk == 0   \* not a page of the file

\* The kernel's buffer after a page has been written at pos.
Written(data, pos, page) ==
    [i \in 1..(IF pos < Len(data) THEN Len(data) ELSE pos + 1) |->
        IF i = pos + 1 THEN page ELSE IF i <= Len(data) THEN data[i] ELSE Junk]

\* read() and write() of a page.  After a short write the page is written
\* again from its start: what the driver gets is not the page.
Copies(l) ==
    /\ loaders[l].at = "copy"
    /\ LET s == loaders[l]
           writes(page) ==
              /\ request' = [request EXCEPT ![s.of].data = Written(@, s.pos, page)]
              /\ Goes(l, [s EXCEPT !.pos = @ + 1])
       IN  \/ /\ s.pos < Info[s.of].pages /\ ~request[s.of].completed
              /\ \/ writes(s.pos + 1) /\ UNCHANGED shorts
                 \/ shorts < scenario.shorts /\ shorts' = shorts + 1 /\ writes(Junk)
              /\ UNCHANGED faults
           \/ /\ s.pos < Info[s.of].pages
              /\ \/ request[s.of].completed /\ UNCHANGED faults
                 \/ ~request[s.of].completed /\ Fails
              /\ Goes(l, [s EXCEPT !.at = "failed"]) /\ UNCHANGED <<request, shorts>>
           \/ /\ s.pos = Info[s.of].pages
              /\ Goes(l, [s EXCEPT !.at = "copied"]) /\ UNCHANGED <<request, faults, shorts>>
    /\ UnchangedInit

\* "0" or "-1" is written.  The kernel takes a "0" outside of a transfer for a
\* "-1".
\* Mutant: "0" in either case.
Finishes_AsDone(l) ==
    /\ loaders[l].at \in {"copied", "failed"}
    /\ LET d == loaders[l].of
           done == request[d].loading
       IN  request' = [request EXCEPT ![d].loading = FALSE, ![d].completed = TRUE,
                                      ![d].aborted = @ \/ ~done]
    /\ Exits(l)
    /\ UNCHANGED <<faults, shorts>> /\ UnchangedInit
Finishes(l) ==
    /\ loaders[l].at \in {"copied", "failed"}
    /\ LET d == loaders[l].of
           done == loaders[l].at = "copied" /\ request[d].loading
       IN  request' = [request EXCEPT ![d].loading = FALSE, ![d].completed = TRUE,
                                      ![d].aborted = @ \/ ~done]
    /\ Exits(l)
    /\ UNCHANGED <<faults, shorts>> /\ UnchangedInit

Loader ==
    \E l \in DOMAIN loaders : OpenFiles(l) \/ Starts(l) \/ Copies(l) \/ Finishes(l)

Next == Kernel \/ init \/ Loader

\* init and the processes it forks are scheduled; the kernel need not change.
Spec == Init /\ [][Next]_vars /\ WF_vars(init) /\ WF_vars(Loader)

-----------------------------------------------------------------------------
(* Properties *)

TypeOK ==
    /\ scenario \in Scenarios /\ present \subseteq Dirs /\ number \in [Dirs -> Numbers]
    /\ changes \in Nat
    /\ Len(socket.queue) <= scenario.capacity
    /\ socket.err \in BOOLEAN /\ socket.congested \in BOOLEAN
    /\ \A x \in DOMAIN nodes : nodes[x].number <= 255
    /\ pc \in {"early", "walk", "drain", "boot", "poll", "handle"}
    /\ \A i \in DOMAIN walk : walk[i].dir \in Dirs /\ walk[i].must \subseteq present
    /\ DOMAIN request = {d \in present : IsRequest(d)}
    /\ \A i \in DOMAIN loaders : loaders[i].at \in {"open", "start", "copy", "copied", "failed"}
    /\ faults \in 0..scenario.faults /\ shorts \in 0..scenario.shorts

\* When init waits and no event has been dropped, /dev has exactly the nodes of
\* the devices there are, with their numbers, wherever the walk of sysfs was when
\* they came and went; with the rights of the rules, unless those came later.
\* Of the devices in the trees that are walked, and only when no two share a node:
\* the node of those is the first one's, and goes with the first that goes.
Makes(d) == IsDevice(d) /\ Info[d].numbered /\ ~Info[d].long
HasNode(d) == Makes(d) /\ number[d] <= 255
InTrees == {d \in Dirs : \A C \in SUBSET Dirs :
    {Roots[i] : i \in DOMAIN Roots} \subseteq C /\ (\A x \in Dirs : Parent[x] \in C => x \in C) => d \in C}
Alone == {d \in InTrees : Makes(d) /\ \A x \in Dirs : Makes(x) /\ devpath(x) = devpath(d) => x = d}
NodesCurrent ==
    pc = "poll" /\ socket.queue = <<>> /\ lost = 0 =>
        /\ DOMAIN nodes \subseteq {devpath(d) : d \in {x \in Dirs : Makes(x)}}
        /\ \A d \in Alone :
            /\ devpath(d) \in DOMAIN nodes <=> d \in present /\ HasNode(d)
            /\ d \in present /\ HasNode(d) =>
                LET node == nodes[devpath(d)]
                    rule == get_device_perm(devpath(d))
                IN  /\ node.number = number[d]
                    /\ node.block = (Info[d].subsystem = "block")
                    /\ scenario.late = <<>> => node.mode = rule.mode /\ node.owner = rule.owner

\* During the walk no event is dropped, whatever the size of sysfs, unless the
\* kernel alone has sent as many as the socket holds.
ColdbootKeepsUp == pc \in {"walk", "drain"} /\ changes < scenario.capacity => lost = 0

\* /dev follows sysfs, and the walk alone never makes init miss a device.
DevicesCurrent == TypeOK /\ NodesCurrent /\ ColdbootKeepsUp

\* What a driver gets of one process is the whole file, in order, or nothing; a
\* short write is the exception, and so are two processes for one request.
FirmwareWhole ==
    \A d \in DOMAIN result :
        result[d].data # Null /\ result[d].loaders = 1 /\ shorts = 0 =>
            result[d].data = [i \in 1..Info[d].pages |-> i]

\* A driver that asks for a firmware the device has gets an answer, before its
\* timeout, also when it asked before init listened; unless its event is dropped
\* or a call fails.
FirmwareAnswered ==
    \A d \in {x \in Dirs : IsRequest(x) /\ Info[x].pages # Null /\ ~Info[x].long} :
        (d \in DOMAIN request) ~> (d \notin DOMAIN request \/ request[d].completed \/ lost > 0 \/ faults > 0)

\* A device gets its node, whether it was there before init listened or came
\* later, unless it goes first or shares its node, or an event is dropped: after
\* that init may never hear of a device again, see poll.
DeviceNoded ==
    \A d \in Alone :
        (d \in present /\ HasNode(d)) ~>
            (devpath(d) \in DOMAIN nodes \/ d \notin present \/ ~HasNode(d) \/ lost > 0)

=============================================================================
