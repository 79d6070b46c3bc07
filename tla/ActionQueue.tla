---------------------------- MODULE ActionQueue -----------------------------
(***************************************************************************)
(* The to-be-executed queue of init: an intrusive, doubly linked list that *)
(* links the actions of init.rc through a node inside each of them         *)
(* (parser.c, util.c), filled by triggers and emptied by                   *)
(* drain_action_queue (init.c).                                            *)
(*                                                                         *)
(* Queueing and draining nest: a command of an action that sets a property *)
(* or names a trigger scans the action list again, queues what matches and *)
(* drains the whole queue before it returns.  drains is the stack of these *)
(* calls, innermost first; of each, the commands its current action still  *)
(* has to run.                                                             *)
(***************************************************************************)
EXTENDS Naturals, Sequences

CONSTANTS
    Actions,       \* the actions of init.rc
    ActionList,    \* action_list: the actions in the order of the file
    Root,          \* action_queue, the list head
    NoNode,        \* the null pointer of a node that was never linked
    Props, Values, Events,
    NoValue,       \* no value: an event, or a property that is not set
    TriggerOf,     \* action -> its trigger
    Files,         \* what init.rc may say: action -> its commands
    Loaded,        \* the values start_property_service loads from files
    ClientSets,    \* what clients set through the property socket
    MaxDepth       \* bound: drains nest no deeper, as the C stack would end

Nodes == Actions \cup {Root}

\* on <event>, and on property:<name>=<value>
PropTriggers == [name : Props, value : Values]
Triggers == [name : Events, value : {NoValue}] \cup PropTriggers

\* queue_all_property_triggers tests every property trigger against the state
\* of the properties.
AllHolding == [name |-> "*", value |-> NoValue]
Tests == Triggers \cup {AllHolding}

Command == [op : {"trigger"}, arg : Triggers] \cup [op : {"setprop"}, arg : PropTriggers]
           \cup [op : {"other"}, arg : {AllHolding}]

event(e) == [name |-> e, value |-> NoValue]
on_property(p, v) == [name |-> p, value |-> v]

ASSUME ActionAssumption ==
    /\ Root \notin Actions /\ NoNode \notin Nodes
    /\ NoValue \notin Values /\ Props \cap Events = {}
    /\ "*" \notin Props \cup Events
    /\ {"early-init", "init", "early-boot", "boot"} \subseteq Events
    /\ ActionList \in Seq(Actions)
    /\ TriggerOf \in [Actions -> Triggers]
    /\ Files \subseteq [Actions -> Seq(Command)]
    /\ Loaded \in [Props -> Values \cup {NoValue}]
    /\ ClientSets \subseteq PropTriggers
    /\ MaxDepth \in Nat

VARIABLES
    commands,      \* the commands of every action, as parsed
    next, prev,    \* the links of the queue, qlist of every action
    props,         \* the value of every property
    phase,         \* how far main() has come
    tests,         \* triggers action_list has still to be scanned for
    idx,           \* the next action of that scan
    drains,        \* the stack of running drain_action_queue calls
    queue,         \* history: what was queued and not yet taken, in order
    requeued,      \* history: an action was queued while on the queue
    ran,           \* history: the actions that were taken from the queue
    late           \* history: what was set too late for queue_all_property_triggers
                   \* and too early for property_changed, and not set since

links == <<next, prev>>
vars == <<commands, next, prev, props, phase, tests, idx, drains, queue, requeued, ran, late>>

QueueInit ==
    /\ next = [n \in Nodes |-> IF n = Root THEN Root ELSE NoNode]
    /\ prev = [n \in Nodes |-> IF n = Root THEN Root ELSE NoNode]
    /\ props = [p \in Props |-> NoValue]
    /\ phase = "start"
    /\ tests = <<>> /\ idx = 1
    /\ drains = <<>>
    /\ queue = <<>> /\ requeued = FALSE /\ ran = {} /\ late = {}

Init == commands \in Files /\ QueueInit

-----------------------------------------------------------------------------
(* The list operations of util.c, on the links.                            *)

\* Mutant: the back link of the head is not set.
list_add_tail_NoBackLink(item) ==
    /\ next' = [next EXCEPT ![item] = Root, ![prev[Root]] = item]
    /\ prev' = [prev EXCEPT ![item] = prev[Root]]

list_add_tail(item) ==
    /\ next' = [next EXCEPT ![item] = Root, ![prev[Root]] = item]
    /\ prev' = [prev EXCEPT ![item] = prev[Root], ![Root] = item]

\* Mutant: the node before the removed one still points to it.
list_remove_KeepsForward(item) ==
    /\ prev' = [prev EXCEPT ![next[item]] = prev[item]]
    /\ UNCHANGED next

list_remove(item) ==
    /\ prev' = [prev EXCEPT ![next[item]] = prev[item]]
    /\ next' = [next EXCEPT ![prev[item]] = next[item]]

list_empty == next[Root] = Root

-----------------------------------------------------------------------------
(* One scan of action_list: action_for_each_trigger,                       *)
(* queue_property_triggers or queue_all_property_triggers.                 *)

Matches(act, test) ==
    IF test = AllHolding
    THEN TriggerOf[act] \in PropTriggers /\ props[TriggerOf[act].name] = TriggerOf[act].value
    ELSE TriggerOf[act] = test

Queued(act) == \E i \in DOMAIN queue : queue[i] = act

\* The code asks nothing; readme.txt adds an action to the queue "unless it is already
\* on the queue".
action_add_queue_tail(act) ==
    /\ list_add_tail(act)
    /\ requeued' = (requeued \/ Queued(act))
    /\ queue' = Append(queue, act)

ScanAction ==
    /\ tests # <<>> /\ idx \in DOMAIN ActionList
    /\ idx' = idx + 1
    /\ IF Matches(ActionList[idx], Head(tests))
       THEN action_add_queue_tail(ActionList[idx])
       ELSE UNCHANGED <<links, queue, requeued>>
    /\ UNCHANGED <<commands, props, phase, tests, drains, ran, late>>

ScanEnds ==
    /\ tests # <<>> /\ idx \notin DOMAIN ActionList
    /\ tests' = Tail(tests) /\ idx' = 1
    /\ UNCHANGED <<commands, links, props, phase, drains, queue, requeued, ran, late>>

-----------------------------------------------------------------------------
(* drain_action_queue and the commands that nest another one.              *)

Draining == tests = <<>> /\ drains # <<>>

action_remove_queue_head ==
    /\ Draining /\ Head(drains) = <<>> /\ ~list_empty
    /\ list_remove(next[Root])
    /\ drains' = <<commands[next[Root]]>> \o Tail(drains)
    /\ ran' = ran \cup {next[Root]}
    /\ queue' = IF queue = <<>> THEN <<>> ELSE Tail(queue)
    /\ UNCHANGED <<commands, props, phase, tests, idx, requeued, late>>

DrainReturns ==
    /\ Draining /\ Head(drains) = <<>> /\ list_empty
    /\ drains' = Tail(drains)
    /\ UNCHANGED <<commands, links, props, phase, tests, idx, queue, requeued, ran, late>>

TriggersEnabled == phase = "main"

\* The command on top has been run; with it, a scan and a drain.
Nest(test) ==
    /\ Len(drains) < MaxDepth
    /\ tests' = <<test>> /\ idx' = 1
    /\ drains' = <<<<>>, Tail(Head(drains))>> \o Tail(drains)

CommandIs(op) == Draining /\ Head(drains) # <<>> /\ Head(Head(drains)).op = op

do_trigger ==
    /\ CommandIs("trigger")
    /\ Nest(Head(Head(drains)).arg)
    /\ UNCHANGED <<commands, links, props, phase, queue, requeued, ran, late>>

\* Before property_init there are no properties to set, and no more is said of init.
do_setprop ==
    /\ CommandIs("setprop") /\ phase # "early-init"
    /\ LET set == Head(Head(drains)).arg
       IN  /\ props' = [props EXCEPT ![set.name] = set.value]
           /\ IF TriggersEnabled THEN Nest(set)
              ELSE /\ drains' = <<Tail(Head(drains))>> \o Tail(drains)
                   /\ UNCHANGED <<tests, idx>>
           /\ late' = IF phase = "triggers" THEN late \cup {set} ELSE late \ {set}
    /\ UNCHANGED <<commands, links, phase, queue, requeued, ran>>

OtherCommand ==
    /\ CommandIs("other")
    /\ drains' = <<Tail(Head(drains))>> \o Tail(drains)
    /\ UNCHANGED <<commands, links, props, phase, tests, idx, queue, requeued, ran, late>>

-----------------------------------------------------------------------------
(* main(): the boot sequence and the requests of its loop.                 *)

Idle == tests = <<>> /\ drains = <<>>

\* Scan for these triggers, then drain.
Fire(ts) == tests' = ts /\ idx' = 1 /\ drains' = << <<>> >>

RunEarlyInit ==
    /\ Idle /\ phase = "start"
    /\ phase' = "early-init" /\ Fire(<<event("early-init")>>)
    /\ UNCHANGED <<commands, links, props, queue, requeued, ran, late>>

RunInit ==
    /\ Idle /\ phase = "early-init"
    /\ phase' = "init" /\ Fire(<<event("init")>>)
    /\ UNCHANGED <<commands, links, props, queue, requeued, ran, late>>

\* start_property_service loads the files in between.
RunBoot ==
    /\ Idle /\ phase = "init"
    /\ props' = [p \in Props |-> IF Loaded[p] = NoValue THEN props[p] ELSE Loaded[p]]
    /\ phase' = "boot" /\ Fire(<<event("early-boot"), event("boot")>>)
    /\ UNCHANGED <<commands, links, queue, requeued, ran, late>>

\* Mutant: the properties that already hold trigger nothing.
RunHolding_Skipped ==
    /\ Idle /\ phase = "boot"
    /\ phase' = "triggers"
    /\ UNCHANGED <<commands, links, props, tests, idx, drains, queue, requeued, ran, late>>

RunHolding ==
    /\ Idle /\ phase = "boot"
    /\ phase' = "triggers" /\ Fire(<<AllHolding>>)
    /\ UNCHANGED <<commands, links, props, queue, requeued, ran, late>>

EnableTriggers ==
    /\ Idle /\ phase = "triggers"
    /\ phase' = "main"
    /\ UNCHANGED <<commands, links, props, tests, idx, drains, queue, requeued, ran, late>>

property_set(set) ==
    /\ Idle /\ phase = "main"
    /\ props' = [props EXCEPT ![set.name] = set.value]
    /\ Fire(<<set>>)
    /\ late' = late \ {set}
    /\ UNCHANGED <<commands, links, phase, queue, requeued, ran>>

InitNext ==
    \/ ScanAction \/ ScanEnds
    \/ action_remove_queue_head \/ DrainReturns
    \/ do_trigger \/ do_setprop \/ OtherCommand
    \/ RunEarlyInit \/ RunInit \/ RunBoot \/ RunHolding \/ EnableTriggers

Next == InitNext \/ \E set \in ClientSets : property_set(set)

Spec == Init /\ [][Next]_vars

-----------------------------------------------------------------------------

\* The type of every variable.
TypeOK ==
    /\ commands \in [Actions -> Seq(Command)]
    /\ next \in [Nodes -> Nodes \cup {NoNode}]
    /\ prev \in [Nodes -> Nodes \cup {NoNode}]
    /\ props \in [Props -> Values \cup {NoValue}]
    /\ phase \in {"start", "early-init", "init", "boot", "triggers", "main"}
    /\ tests \in Seq(Tests) /\ idx \in Nat \ {0}
    /\ drains \in Seq(Seq(Command))
    /\ queue \in Seq(Actions)
    /\ requeued \in BOOLEAN
    /\ ran \in SUBSET Actions /\ late \in SUBSET PropTriggers

\* The links nx and pv form a ring through Root and the actions of q, in order.
Node(q, i) == IF i \in 1 .. Len(q) THEN q[i] ELSE Root
Ring(nx, pv, q) ==
    \A i \in 0 .. Len(q) :
        nx[Node(q, i)] = Node(q, i + 1) /\ pv[Node(q, i + 1)] = Node(q, i)
Distinct(q) == \A i, j \in 1 .. Len(q) : q[i] = q[j] => i = j

\* As long as no action is queued twice the links hold exactly what was queued
\* and not yet taken, first in first out, through all the nested drains.  Nothing is
\* said of the list once an action has been queued while it is on it, which
\* readme.txt rules out ("unless it is already on the queue") and the code does not.
QueueIntact == ~requeued => Ring(next, prev, queue) /\ Distinct(queue)

\* "Triggers of this form occur when the property <name> is set to the specific
\* value <value>" (readme.txt): whenever init is back in its loop, an action
\* whose trigger the properties meet has been run, unless the property was set
\* between the two or an action was queued twice.
TriggeredHaveRun ==
    phase = "main" /\ Idle /\ ~requeued =>
        \A i \in DOMAIN ActionList : Matches(ActionList[i], AllHolding) =>
            ActionList[i] \in ran \/ TriggerOf[ActionList[i]] \in late

\* Every drain ends, and init comes back to its loop, unless an action was
\* queued twice or the drains nest as deep as the bound.
DrainsFinish ==
    drains # <<>> ~> drains = <<>> \/ requeued \/ Len(drains) = MaxDepth
=============================================================================
