------------------------- MODULE ActionQueueProofs --------------------------
(***************************************************************************)
(* The action queue is intact for every init.rc, property set and nesting: *)
(* as long as no action is queued twice, the links of the list are exactly *)
(* the sequence of what was queued and not yet taken.                      *)
(***************************************************************************)
EXTENDS ActionQueue, TLAPS

Scalars ==
    /\ commands \in [Actions -> Seq(Command)]
    /\ props \in [Props -> Values \cup {NoValue}]
    /\ phase \in {"start", "early-init", "init", "boot", "triggers", "main"}
    /\ tests \in Seq(Tests) /\ idx \in Nat \ {0}
    /\ drains \in Seq(Seq(Command))
    /\ queue \in Seq(Actions)
    /\ requeued \in BOOLEAN
    /\ ran \in SUBSET Actions /\ late \in SUBSET PropTriggers

\* The links stay among the nodes that were linked once: what can be reached
\* from Root never holds the null pointer, whatever was queued how often.
LinkInv ==
    /\ next \in [Nodes -> Nodes \cup {NoNode}]
    /\ prev \in [Nodes -> Nodes \cup {NoNode}]
    /\ next[Root] # NoNode
    /\ \A n \in Nodes : next[n] # NoNode =>
          /\ next[n] \in Nodes /\ next[next[n]] # NoNode
          /\ prev[n] \in Nodes /\ next[prev[n]] # NoNode

QInv == Scalars /\ LinkInv /\ QueueIntact

\* Queueing an action that is not on the queue adds it at the tail.
LEMMA AddTail ==
    ASSUME NEW nx \in [Nodes -> Nodes \cup {NoNode}], NEW pv \in [Nodes -> Nodes \cup {NoNode}],
           NEW q \in Seq(Actions), Ring(nx, pv, q), Distinct(q),
           NEW item \in Actions, \A i \in 1 .. Len(q) : q[i] # item
    PROVE  /\ Ring([nx EXCEPT ![item] = Root, ![pv[Root]] = item],
                   [pv EXCEPT ![item] = pv[Root], ![Root] = item], Append(q, item))
           /\ Distinct(Append(q, item))
<1> DEFINE r == Append(q, item)
           n == Len(q)
           nx1 == [nx EXCEPT ![item] = Root, ![pv[Root]] = item]
           pv1 == [pv EXCEPT ![item] = pv[Root], ![Root] = item]
<1>1. /\ n \in Nat /\ r \in Seq(Actions) /\ Len(r) = n + 1 /\ r[n + 1] = item
      /\ \A i \in 1 .. n : r[i] = q[i] /\ q[i] \in Actions /\ q[i] # Root
  BY ActionAssumption
<1>2. pv[Root] = Node(q, n)
  <2>1. Node(q, n + 1) = Root
    BY <1>1 DEF Node
  <2>2. QED BY <1>1, <2>1 DEF Ring
<1>3. item \in Nodes /\ Root \in Nodes /\ item # Root
  BY ActionAssumption DEF Nodes
<1>4. Node(q, n) \in Nodes /\ Node(q, n) # item
  BY <1>1, <1>3 DEF Node, Nodes
<1>5. \A m \in Nodes : nx1[m] = IF m = Node(q, n) THEN item
                                ELSE IF m = item THEN Root ELSE nx[m]
  BY <1>2, <1>3, <1>4
<1>6. \A m \in Nodes : pv1[m] = IF m = Root THEN item
                                ELSE IF m = item THEN Node(q, n) ELSE pv[m]
  BY <1>2, <1>3
<1> HIDE DEF nx1, pv1
<1>7. ASSUME NEW i \in 0 .. n + 1
      PROVE  nx1[Node(r, i)] = Node(r, i + 1) /\ pv1[Node(r, i + 1)] = Node(r, i)
  <2>1. CASE i < n
    <3>1. Node(r, i) = Node(q, i) /\ Node(r, i + 1) = Node(q, i + 1)
      BY <1>1, <2>1 DEF Node
    <3>2. Node(q, i) \in Nodes /\ Node(q, i) # item /\ Node(q, i) # Node(q, n)
      BY <1>1, <1>3, <2>1 DEF Node, Nodes, Distinct
    <3>3. Node(q, i + 1) \in Nodes /\ Node(q, i + 1) # item /\ Node(q, i + 1) # Root
      BY <1>1, <1>3, <2>1 DEF Node, Nodes
    <3>4. nx[Node(q, i)] = Node(q, i + 1) /\ pv[Node(q, i + 1)] = Node(q, i)
      BY <1>1, <2>1 DEF Ring
    <3>5. QED BY <1>5, <1>6, <3>1, <3>2, <3>3, <3>4
  <2>2. CASE i = n
    <3>1. Node(r, i) = Node(q, n) /\ Node(r, i + 1) = item
      BY <1>1, <2>2 DEF Node
    <3>2. QED BY <1>3, <1>4, <1>5, <1>6, <3>1
  <2>3. CASE i = n + 1
    <3>1. Node(r, i) = item /\ Node(r, i + 1) = Root
      BY <1>1, <2>3 DEF Node
    <3>2. QED BY <1>3, <1>4, <1>5, <1>6, <3>1
  <2>4. QED BY <1>1, <2>1, <2>2, <2>3
<1>8. Ring(nx1, pv1, r)
  <2>1. 0 .. Len(r) = 0 .. n + 1
    BY <1>1
  <2> HIDE DEF r, n
  <2>2. QED BY <1>7, <2>1 DEF Ring
<1>9. Distinct(r)
  <2>1. SUFFICES ASSUME NEW i \in 1 .. n + 1, NEW j \in 1 .. n + 1, r[i] = r[j]
                 PROVE  i = j
    BY <1>1 DEF Distinct
  <2>2. CASE i \in 1 .. n /\ j \in 1 .. n
    BY <1>1, <2>1, <2>2 DEF Distinct
  <2>3. CASE i = n + 1 \/ j = n + 1
    BY <1>1, <2>1, <2>3
  <2>4. QED BY <1>1, <2>2, <2>3
<1>10. QED BY <1>8, <1>9 DEF nx1, pv1

\* Taking the action at the head leaves the rest of the queue.
LEMMA RemoveHead ==
    ASSUME NEW nx \in [Nodes -> Nodes \cup {NoNode}], NEW pv \in [Nodes -> Nodes \cup {NoNode}],
           NEW q \in Seq(Actions), Ring(nx, pv, q), Distinct(q), nx[Root] # Root
    PROVE  /\ q # <<>> /\ Distinct(Tail(q))
           /\ Ring([nx EXCEPT ![pv[nx[Root]]] = nx[nx[Root]]],
                   [pv EXCEPT ![nx[nx[Root]]] = pv[nx[Root]]], Tail(q))
<1> DEFINE n == Len(q)
           r == Tail(q)
           item == nx[Root]
           nx1 == [nx EXCEPT ![pv[item]] = nx[item]]
           pv1 == [pv EXCEPT ![nx[item]] = pv[item]]
<1>1. n \in Nat /\ \A i \in 1 .. n : q[i] \in Actions /\ q[i] # Root
  BY ActionAssumption
<1>2. item = Node(q, 1)
  <2>1. Node(q, 0) = Root
    BY DEF Node
  <2>2. QED BY <1>1, <2>1 DEF Ring
<1>3. n >= 1 /\ item = q[1]
  BY <1>1, <1>2 DEF Node
<1>4. /\ r \in Seq(Actions) /\ Len(r) = n - 1 /\ \A i \in 1 .. n - 1 : r[i] = q[i + 1]
      /\ q # <<>>
  BY <1>1, <1>3
<1>5. nx[item] = Node(q, 2) /\ pv[item] = Root
  <2>1. Node(q, 1) = item /\ Node(q, 0) = Root
    BY <1>3 DEF Node
  <2>2. QED BY <1>1, <1>3, <2>1 DEF Ring
<1>6. Root \in Nodes
  BY DEF Nodes
<1>7. \A m \in Nodes : /\ nx1[m] = IF m = Root THEN Node(q, 2) ELSE nx[m]
                       /\ pv1[m] = IF m = Node(q, 2) THEN Root ELSE pv[m]
  BY <1>5
<1> HIDE DEF nx1, pv1
<1>8. ASSUME NEW i \in 0 .. n - 1
      PROVE  nx1[Node(r, i)] = Node(r, i + 1) /\ pv1[Node(r, i + 1)] = Node(r, i)
  <2>1. Node(r, i + 1) = Node(q, i + 2) /\ Node(q, i + 2) \in Nodes
    BY <1>1, <1>3, <1>4, <1>6 DEF Node, Nodes
  <2>2. CASE i = 0
    <3>1. Node(r, i) = Root
      BY <2>2 DEF Node
    <3>2. QED BY <1>6, <1>7, <2>1, <2>2, <3>1
  <2>3. CASE i # 0
    <3>1. Node(r, i) = Node(q, i + 1) /\ Node(q, i + 1) \in Nodes /\ Node(q, i + 1) # Root
      BY <1>1, <1>3, <1>4, <1>6, <2>3 DEF Node, Nodes
    <3>2. Node(q, i + 2) # Node(q, 2)
      BY <1>1, <1>3, <2>3 DEF Node, Distinct
    <3>3. i + 1 \in 0 .. n /\ i + 1 + 1 = i + 2
      BY <1>1, <1>3
    <3>4. nx[Node(q, i + 1)] = Node(q, i + 2) /\ pv[Node(q, i + 2)] = Node(q, i + 1)
      BY <3>3 DEF Ring
    <3>5. QED BY <1>7, <2>1, <3>1, <3>2, <3>4
  <2>4. QED BY <2>2, <2>3
<1>9. Ring(nx1, pv1, r)
  <2>1. 0 .. Len(r) = 0 .. n - 1
    BY <1>4
  <2> HIDE DEF r, n
  <2>2. QED BY <1>8, <2>1 DEF Ring
<1>10. Distinct(r)
  BY <1>1, <1>4 DEF Distinct
<1>11. QED BY <1>4, <1>9, <1>10 DEF nx1, pv1

-----------------------------------------------------------------------------
(* The invariant, action by action.                                        *)

LEMMA InitQ == Init => QInv
<1> SUFFICES ASSUME Init PROVE QInv
  OBVIOUS
<1> USE ActionAssumption
<1>1. Scalars
  <2>1. commands \in [Actions -> Seq(Command)]
    BY DEF Init, QueueInit
  <2>2. <<>> \in Seq(Tests) /\ <<>> \in Seq(Seq(Command)) /\ <<>> \in Seq(Actions)
    OBVIOUS
  <2>3. props \in [Props -> Values \cup {NoValue}]
    BY DEF Init, QueueInit
  <2>4. phase \in {"start", "early-init", "init", "boot", "triggers", "main"}
    <3>1. phase = "start"
      BY DEF Init, QueueInit
    <3>2. QED BY <3>1
  <2>5. idx \in Nat \ {0} /\ requeued \in BOOLEAN
    <3>1. idx = 1
      BY DEF Init, QueueInit
    <3>2. requeued = FALSE
      BY Zenon DEF Init, QueueInit
    <3>3. idx \in Nat \ {0}
      BY <3>1
    <3>4. requeued \in BOOLEAN
      BY <3>2, Zenon
    <3>5. QED BY <3>3, <3>4
  <2>6. ran \in SUBSET Actions /\ late \in SUBSET PropTriggers
    <3>1. ran = {} /\ late = {}
      BY DEF Init, QueueInit
    <3>2. QED BY <3>1
  <2>7. tests \in Seq(Tests) /\ drains \in Seq(Seq(Command)) /\ queue \in Seq(Actions)
    BY <2>2 DEF Init, QueueInit
  <2>8. QED BY <2>1, <2>3, <2>4, <2>5, <2>6, <2>7 DEF Scalars
<1>2. LinkInv
  BY DEF Init, QueueInit, LinkInv, Nodes
<1>3. Ring(next, prev, <<>>)
  BY DEF Init, QueueInit, Ring, Node, Nodes
<1>4. QED BY <1>1, <1>2, <1>3 DEF QInv, QueueIntact, Distinct, Init, QueueInit

\* Queueing keeps the links inside the linked nodes, be the action queued or not.
LEMMA AddLinks ==
    ASSUME LinkInv, NEW item \in Actions, list_add_tail(item)
    PROVE  LinkInv'
<1> USE ActionAssumption
<1>1. /\ item \in Nodes /\ Root \in Nodes /\ item # Root /\ NoNode \notin Nodes
      /\ prev[Root] \in Nodes /\ next[prev[Root]] # NoNode
      /\ next \in [Nodes -> Nodes \cup {NoNode}] /\ prev \in [Nodes -> Nodes \cup {NoNode}]
  BY DEF LinkInv, Nodes
<1> DEFINE last == prev[Root]
<1>2. /\ next' \in [Nodes -> Nodes \cup {NoNode}] /\ prev' \in [Nodes -> Nodes \cup {NoNode}]
      /\ \A m \in Nodes : next'[m] = IF m = last THEN item
                                     ELSE IF m = item THEN Root ELSE next[m]
      /\ \A m \in Nodes : prev'[m] = IF m = Root THEN item
                                     ELSE IF m = item THEN last ELSE prev[m]
  BY <1>1 DEF list_add_tail
<1>3. \A m \in Nodes : next'[m] # NoNode <=> m = item \/ next[m] # NoNode
  BY <1>1, <1>2
<1> HIDE DEF last
<1>4. last \in Nodes /\ next[last] # NoNode
  BY <1>1 DEF last
<1>5. ASSUME NEW m \in Nodes, next'[m] # NoNode
      PROVE  /\ next'[m] \in Nodes /\ next'[next'[m]] # NoNode
             /\ prev'[m] \in Nodes /\ next'[prev'[m]] # NoNode
  <2>1. next[m] # NoNode => /\ next[m] \in Nodes /\ next[next[m]] # NoNode
                            /\ prev[m] \in Nodes /\ next[prev[m]] # NoNode
    BY DEF LinkInv
  <2>2. next[Root] # NoNode
    BY DEF LinkInv
  <2>3. m = item \/ next[m] # NoNode
    BY <1>3, <1>5
  <2>4. next'[m] \in Nodes /\ next'[next'[m]] # NoNode
    BY <1>1, <1>2, <1>3, <2>1, <2>2, <2>3
  <2>5. prev'[m] \in Nodes /\ next'[prev'[m]] # NoNode
    BY <1>1, <1>2, <1>3, <1>4, <2>1, <2>3
  <2>6. QED BY <2>4, <2>5
<1>6. next'[Root] # NoNode
  BY <1>1, <1>3 DEF LinkInv
<1>7. QED BY <1>2, <1>5, <1>6 DEF LinkInv

LEMMA RemoveLinks ==
    ASSUME LinkInv, NEW item \in Nodes, next[item] # NoNode, list_remove(item)
    PROVE  LinkInv'
<1> USE ActionAssumption
<1>1. /\ Root \in Nodes /\ NoNode \notin Nodes
      /\ next \in [Nodes -> Nodes \cup {NoNode}] /\ prev \in [Nodes -> Nodes \cup {NoNode}]
      /\ next[item] \in Nodes /\ prev[item] \in Nodes
      /\ next[next[item]] # NoNode /\ next[prev[item]] # NoNode
  BY DEF LinkInv, Nodes
<1> DEFINE after == next[item]
           before == prev[item]
<1>2. /\ next' \in [Nodes -> Nodes \cup {NoNode}] /\ prev' \in [Nodes -> Nodes \cup {NoNode}]
      /\ \A m \in Nodes : next'[m] = IF m = before THEN after ELSE next[m]
      /\ \A m \in Nodes : prev'[m] = IF m = after THEN before ELSE prev[m]
  BY <1>1 DEF list_remove
<1>3. \A m \in Nodes : next'[m] # NoNode <=> next[m] # NoNode
  BY <1>1, <1>2
<1>4. after \in Nodes /\ before \in Nodes /\ next[after] # NoNode /\ next[before] # NoNode
  BY <1>1
<1> HIDE DEF after, before
<1>5. ASSUME NEW m \in Nodes, next'[m] # NoNode
      PROVE  /\ next'[m] \in Nodes /\ next'[next'[m]] # NoNode
             /\ prev'[m] \in Nodes /\ next'[prev'[m]] # NoNode
  <2>1. /\ next[m] \in Nodes /\ next[next[m]] # NoNode
        /\ prev[m] \in Nodes /\ next[prev[m]] # NoNode
    BY <1>3, <1>5 DEF LinkInv
  <2>2. QED BY <1>2, <1>3, <1>4, <2>1
<1>6. next'[Root] # NoNode
  BY <1>1, <1>3 DEF LinkInv
<1>7. QED BY <1>2, <1>5, <1>6 DEF LinkInv

\* A step that leaves the list and its history alone.
LEMMA QuietQ ==
    ASSUME QInv, UNCHANGED <<links, queue, requeued>>, Scalars'
    PROVE  QInv'
  BY DEF QInv, LinkInv, QueueIntact, links

LEMMA ScanActionQ == QInv /\ ScanAction => QInv'
<1> SUFFICES ASSUME QInv, ScanAction PROVE QInv'
  OBVIOUS
<1> DEFINE act == ActionList[idx]
<1>1. act \in Actions /\ queue \in Seq(Actions) /\ idx \in Nat \ {0}
  BY ActionAssumption DEF ScanAction, QInv, Scalars
<1>2. CASE Matches(act, Head(tests))
  <2>1. action_add_queue_tail(act)
    BY <1>2 DEF ScanAction
  <2>2. LinkInv'
    BY <1>1, <2>1, AddLinks DEF QInv, action_add_queue_tail
  <2>3. queue' = Append(queue, act) /\ requeued' = (requeued \/ Queued(act))
    BY <2>1 DEF action_add_queue_tail
  <2>4. Scalars'
    BY <1>1, <2>3 DEF QInv, Scalars, ScanAction
  <2>5. QueueIntact'
    <3>1. SUFFICES ASSUME ~requeued' PROVE Ring(next, prev, queue)' /\ Distinct(queue)'
      BY DEF QueueIntact
    <3>2. ~requeued /\ ~Queued(act)
      BY <2>3, <3>1
    <3>3. \A i \in 1 .. Len(queue) : queue[i] # act
      BY <1>1, <3>2 DEF Queued
    <3>4. Ring(next, prev, queue) /\ Distinct(queue)
      BY <3>2 DEF QInv, QueueIntact
    <3>5. QED BY <1>1, <2>1, <2>3, <3>3, <3>4, AddTail
              DEF QInv, LinkInv, action_add_queue_tail, list_add_tail
  <2>6. QED BY <2>2, <2>4, <2>5 DEF QInv
<1>3. CASE ~Matches(act, Head(tests))
  <2>1. UNCHANGED <<links, queue, requeued>> /\ Scalars'
    BY <1>1, <1>3 DEF ScanAction, QInv, Scalars
  <2>2. QED BY <2>1, QuietQ
<1>4. QED BY <1>2, <1>3

LEMMA TakeQ == QInv /\ action_remove_queue_head => QInv'
<1> SUFFICES ASSUME QInv, action_remove_queue_head PROVE QInv'
  OBVIOUS
<1> DEFINE act == next[Root]
<1>1. act \in Actions /\ act \in Nodes /\ next[act] # NoNode
  BY DEF action_remove_queue_head, list_empty, QInv, LinkInv, Nodes
<1>2. list_remove(act) /\ drains \in Seq(Seq(Command)) /\ drains # <<>>
  BY DEF action_remove_queue_head, Draining, QInv, Scalars
<1>3. LinkInv'
  BY <1>1, <1>2, RemoveLinks DEF QInv
<1>4. Scalars'
  <2>1. commands[act] \in Seq(Command) /\ queue \in Seq(Actions)
    BY <1>1 DEF QInv, Scalars
  <2>2. drains' \in Seq(Seq(Command))
    <3>1. Tail(drains) \in Seq(Seq(Command))
      BY <1>2
    <3>2. drains' = <<commands[act]>> \o Tail(drains)
      BY DEF action_remove_queue_head
    <3>3. QED BY <2>1, <3>1, <3>2
  <2>3. queue' \in Seq(Actions)
    BY <2>1 DEF action_remove_queue_head
  <2>4. ran' \in SUBSET Actions
    BY <1>1 DEF action_remove_queue_head, QInv, Scalars
  <2>5. UNCHANGED <<commands, props, phase, tests, idx, requeued, late>>
    BY DEF action_remove_queue_head
  <2>6. QED BY <2>2, <2>3, <2>4, <2>5 DEF QInv, Scalars
<1>5. QueueIntact'
  <2>1. SUFFICES ASSUME ~requeued' PROVE Ring(next, prev, queue)' /\ Distinct(queue)'
    BY DEF QueueIntact
  <2>2. Ring(next, prev, queue) /\ Distinct(queue) /\ queue \in Seq(Actions)
    BY <2>1 DEF QInv, QueueIntact, action_remove_queue_head, Scalars
  <2>3. /\ queue # <<>> /\ Distinct(Tail(queue))
        /\ Ring([next EXCEPT ![prev[next[Root]]] = next[next[Root]]],
                [prev EXCEPT ![next[next[Root]]] = prev[next[Root]]], Tail(queue))
    BY <2>2, RemoveHead DEF QInv, LinkInv, action_remove_queue_head, list_empty
  <2>4. queue' = Tail(queue)
    BY <2>3 DEF action_remove_queue_head
  <2>5. QED BY <1>2, <2>3, <2>4 DEF list_remove
<1>6. QED BY <1>3, <1>4, <1>5 DEF QInv

\* The command on top, and what is left when it has been run.
LEMMA CommandTop ==
    ASSUME QInv, NEW op, CommandIs(op)
    PROVE  /\ drains # <<>> /\ Head(drains) # <<>> /\ tests = <<>>
           /\ Head(drains) \in Seq(Command) /\ Tail(drains) \in Seq(Seq(Command))
           /\ Head(Head(drains)) \in Command /\ Head(Head(drains)).op = op
           /\ Tail(Head(drains)) \in Seq(Command)
<1>1. drains \in Seq(Seq(Command)) /\ drains # <<>> /\ Head(drains) # <<>> /\ tests = <<>>
      /\ Head(Head(drains)).op = op
  BY DEF QInv, Scalars, CommandIs, Draining
<1>2. Head(drains) \in Seq(Command) /\ Tail(drains) \in Seq(Seq(Command))
  BY <1>1
<1>3. Head(Head(drains)) \in Command /\ Tail(Head(drains)) \in Seq(Command)
  BY <1>1, <1>2
<1>4. QED BY <1>1, <1>2, <1>3

LEMMA NestType ==
    ASSUME QInv, NEW op, CommandIs(op), NEW test \in Tests, Nest(test)
    PROVE  tests' \in Seq(Tests) /\ idx' \in Nat \ {0} /\ drains' \in Seq(Seq(Command))
<1>1. Tail(Head(drains)) \in Seq(Command) /\ Tail(drains) \in Seq(Seq(Command))
  BY CommandTop
<1>2. <<<<>>, Tail(Head(drains))>> \in Seq(Seq(Command))
  BY <1>1
<1>3. drains' \in Seq(Seq(Command))
  BY <1>1, <1>2 DEF Nest
<1>4. QED BY <1>3 DEF Nest

LEMMA NextQ == QInv /\ [Next]_vars => QInv'
<1> SUFFICES ASSUME QInv, [Next]_vars PROVE QInv'
  OBVIOUS
<1>1. Scalars
  BY DEF QInv
<1>2. CASE ScanAction \/ action_remove_queue_head
  BY <1>2, ScanActionQ, TakeQ
<1>3. CASE ScanEnds
  <2>1. tests' \in Seq(Tests)
    BY <1>1, <1>3 DEF ScanEnds, Scalars
  <2>2. QED BY <1>1, <1>3, <2>1, QuietQ DEF ScanEnds, Scalars
<1>4. CASE DrainReturns
  <2>1. drains' \in Seq(Seq(Command))
    BY <1>1, <1>4 DEF DrainReturns, Draining, Scalars
  <2>2. QED BY <1>1, <1>4, <2>1, QuietQ DEF DrainReturns, Scalars
<1>5. CASE do_trigger
  <2>1. CommandIs("trigger") /\ Nest(Head(Head(drains)).arg)
    BY <1>5 DEF do_trigger
  <2>2. Head(Head(drains)).arg \in Tests
    BY <2>1, CommandTop DEF Command, Tests
  <2>3. tests' \in Seq(Tests) /\ idx' \in Nat \ {0} /\ drains' \in Seq(Seq(Command))
    BY <2>1, <2>2, NestType
  <2>4. QED BY <1>1, <1>5, <2>3, QuietQ DEF do_trigger, Scalars
<1>6. CASE do_setprop
  <2> DEFINE set == Head(Head(drains)).arg
  <2>1. CommandIs("setprop")
    BY <1>6 DEF do_setprop
  <2>2. set \in PropTriggers /\ set \in Tests
    BY <2>1, CommandTop DEF Command, Tests, Triggers
  <2>3. props' \in [Props -> Values \cup {NoValue}]
    BY <1>1, <1>6, <2>2 DEF do_setprop, Scalars, PropTriggers
  <2>4. tests' \in Seq(Tests) /\ idx' \in Nat \ {0} /\ drains' \in Seq(Seq(Command))
    <3>1. CASE TriggersEnabled
      BY <1>6, <2>1, <2>2, <3>1, NestType DEF do_setprop
    <3>2. CASE ~TriggersEnabled
      <4>1. drains' = <<Tail(Head(drains))>> \o Tail(drains) /\ UNCHANGED <<tests, idx>>
        BY <1>6, <3>2 DEF do_setprop
      <4>2. Tail(Head(drains)) \in Seq(Command) /\ Tail(drains) \in Seq(Seq(Command))
        BY <2>1, CommandTop
      <4>3. QED BY <1>1, <4>1, <4>2 DEF Scalars
    <3>3. QED BY <3>1, <3>2
  <2>5. late' \in SUBSET PropTriggers
    BY <1>1, <1>6, <2>2 DEF do_setprop, Scalars
  <2>6. QED BY <1>1, <1>6, <2>3, <2>4, <2>5, QuietQ DEF do_setprop, Scalars
<1>7. CASE OtherCommand
  <2>1. drains' \in Seq(Seq(Command))
    <3>1. Tail(Head(drains)) \in Seq(Command) /\ Tail(drains) \in Seq(Seq(Command))
      BY <1>7, CommandTop DEF OtherCommand
    <3>2. QED BY <1>7, <3>1 DEF OtherCommand
  <2>2. QED BY <1>1, <1>7, <2>1, QuietQ DEF OtherCommand, Scalars
<1>8. \A ts \in Seq(Tests) : Fire(ts) =>
          tests' \in Seq(Tests) /\ idx' \in Nat \ {0} /\ drains' \in Seq(Seq(Command))
  BY DEF Fire
<1>9. CASE RunEarlyInit \/ RunInit \/ RunBoot \/ RunHolding
  <2>1. event("early-init") \in Tests /\ event("init") \in Tests /\ event("early-boot") \in Tests
        /\ event("boot") \in Tests /\ AllHolding \in Tests
    BY ActionAssumption DEF event, Tests, Triggers
  <2>2. /\ <<event("early-init")>> \in Seq(Tests) /\ <<event("init")>> \in Seq(Tests)
        /\ <<AllHolding>> \in Seq(Tests)
        /\ <<event("early-boot"), event("boot")>> \in Seq(Tests)
    BY <2>1
  <2>3. tests' \in Seq(Tests) /\ idx' \in Nat \ {0} /\ drains' \in Seq(Seq(Command))
    BY <1>8, <1>9, <2>2 DEF RunEarlyInit, RunInit, RunBoot, RunHolding
  <2>4. props' \in [Props -> Values \cup {NoValue}]
    BY <1>1, <1>9, ActionAssumption DEF RunEarlyInit, RunInit, RunBoot, RunHolding, Scalars
  <2>5. UNCHANGED <<commands, links, queue, requeued, ran, late>>
        /\ phase' \in {"start", "early-init", "init", "boot", "triggers", "main"}
    BY <1>9 DEF RunEarlyInit, RunInit, RunBoot, RunHolding
  <2>6. QED BY <1>1, <2>3, <2>4, <2>5, QuietQ DEF Scalars
<1>10. CASE EnableTriggers
  BY <1>1, <1>10, QuietQ DEF EnableTriggers, Scalars
<1>11. CASE \E set \in ClientSets : property_set(set)
  <2>1. PICK set \in ClientSets : property_set(set)
    BY <1>11
  <2>2. set \in PropTriggers /\ <<set>> \in Seq(Tests)
    BY ActionAssumption DEF Tests, Triggers
  <2>3. tests' \in Seq(Tests) /\ idx' \in Nat \ {0} /\ drains' \in Seq(Seq(Command))
    BY <1>8, <2>1, <2>2 DEF property_set
  <2>4. props' \in [Props -> Values \cup {NoValue}]
    BY <1>1, <2>1, <2>2 DEF property_set, Scalars, PropTriggers
  <2>5. QED BY <1>1, <2>1, <2>3, <2>4, QuietQ DEF property_set, Scalars
<1>12. CASE UNCHANGED vars
  BY <1>1, <1>12, QuietQ DEF vars, links, Scalars
<1>13. QED BY <1>2, <1>3, <1>4, <1>5, <1>6, <1>7, <1>9, <1>10, <1>11, <1>12
           DEF Next, InitNext

LEMMA QHolds == Spec => []QInv
  BY InitQ, NextQ, PTL DEF Spec

\* Every variable of the action queue keeps its type.
THEOREM TypeCorrect == Spec => []TypeOK
<1>1. QInv => TypeOK
  BY DEF QInv, Scalars, LinkInv, TypeOK
<1>2. QED BY <1>1, QHolds, PTL

\* Nested drains and scans never lose, repeat or reorder what is on the queue,
\* as long as no action is queued while it is on it.
THEOREM QueueKeepsOrder == Spec => []QueueIntact
<1>1. QInv => QueueIntact
  BY DEF QInv
<1>2. QED BY <1>1, QHolds, PTL

-----------------------------------------------------------------------------
(* A scan belongs to a drain that runs when it ends.                        *)

RunningInv == tests # <<>> => drains # <<>>

\* A command, and a scan that begins, leave a drain running.
LEMMA DrainsOn ==
    ASSUME QInv,
           do_trigger \/ do_setprop \/ OtherCommand
           \/ RunEarlyInit \/ RunInit \/ RunBoot \/ RunHolding
           \/ \E set \in ClientSets : property_set(set)
    PROVE  UNCHANGED <<links, queue, requeued, ran>> /\ drains' # <<>>
<1>1. CASE do_trigger \/ do_setprop \/ OtherCommand
  <2>1. PICK op : CommandIs(op)
    BY <1>1 DEF do_trigger, do_setprop, OtherCommand
  <2>2. Tail(Head(drains)) \in Seq(Command) /\ Tail(drains) \in Seq(Seq(Command))
    BY <2>1, CommandTop
  <2>3. <<Tail(Head(drains))>> \o Tail(drains) # <<>>
    <3>1. <<Tail(Head(drains))>> \in Seq(Seq(Command))
      BY <2>2
    <3>2. Len(<<Tail(Head(drains))>> \o Tail(drains)) = 1 + Len(Tail(drains))
      BY <2>2, <3>1
    <3>3. QED BY <2>2, <3>2
  <2>4. <<<<>>, Tail(Head(drains))>> \o Tail(drains) # <<>>
    <3>1. <<<<>>, Tail(Head(drains))>> \in Seq(Seq(Command))
      BY <2>2
    <3>2. Len(<<<<>>, Tail(Head(drains))>> \o Tail(drains)) = 2 + Len(Tail(drains))
      BY <2>2, <3>1
    <3>3. QED BY <2>2, <3>2
  <2>5. QED BY <1>1, <2>3, <2>4 DEF do_trigger, do_setprop, OtherCommand, Nest
<1>2. CASE ~(do_trigger \/ do_setprop \/ OtherCommand)
  BY <1>2 DEF RunEarlyInit, RunInit, RunBoot, RunHolding, property_set, Fire
<1>3. QED BY <1>1, <1>2

LEMMA InitRunning == Init => RunningInv
  BY DEF Init, QueueInit, RunningInv

LEMMA NextRunning == QInv /\ RunningInv /\ [Next]_vars => RunningInv'
<1> SUFFICES ASSUME QInv, RunningInv, [Next]_vars PROVE RunningInv'
  OBVIOUS
<1>1. CASE ScanAction \/ ScanEnds
  <2>1. tests # <<>> /\ UNCHANGED drains
    BY <1>1 DEF ScanAction, ScanEnds
  <2>2. QED BY <2>1 DEF RunningInv
<1>2. CASE action_remove_queue_head \/ DrainReturns
  <2>1. tests' = <<>>
    BY <1>2 DEF action_remove_queue_head, DrainReturns, Draining
  <2>2. QED BY <2>1 DEF RunningInv
<1>3. CASE do_trigger \/ do_setprop \/ OtherCommand
           \/ RunEarlyInit \/ RunInit \/ RunBoot \/ RunHolding
           \/ \E set \in ClientSets : property_set(set)
  BY <1>3, DrainsOn DEF RunningInv
<1>4. CASE EnableTriggers \/ UNCHANGED vars
  BY <1>4 DEF EnableTriggers, vars, RunningInv
<1>5. QED BY <1>1, <1>2, <1>3, <1>4 DEF Next, InitNext

-----------------------------------------------------------------------------
(* What a property calls for is run.                                       *)

\* The scan has not passed the i-th action and will queue it.
Pending(i) ==
    \E k \in DOMAIN tests :
        /\ tests[k] = AllHolding \/ tests[k] = TriggerOf[ActionList[i]]
        /\ k = 1 => i >= idx

Called(i) ==
    \/ ActionList[i] \in ran \/ Queued(ActionList[i]) \/ Pending(i)
    \/ TriggerOf[ActionList[i]] \in late

OwedInv ==
    ~requeued =>
        /\ drains = <<>> => queue = <<>>
        /\ phase \in {"triggers", "main"} =>
              \A i \in DOMAIN ActionList : Matches(ActionList[i], AllHolding) => Called(i)

\* A scan queues what is pending.
LEMMA ScanActionOwed == QInv /\ RunningInv /\ OwedInv /\ ScanAction => OwedInv'
<1> SUFFICES ASSUME QInv, RunningInv, OwedInv, ScanAction, ~requeued' PROVE OwedInv'
  BY DEF OwedInv
<1> DEFINE act == ActionList[idx]
<1>1. /\ tests \in Seq(Tests) /\ tests # <<>> /\ idx \in Nat \ {0} /\ idx \in DOMAIN ActionList
      /\ queue \in Seq(Actions) /\ act \in Actions
  BY ActionAssumption DEF QInv, Scalars, ScanAction
<1>2. ~requeued /\ UNCHANGED <<props, phase, drains, tests, ran, late>> /\ idx' = idx + 1
  BY DEF ScanAction, action_add_queue_tail
<1>3. drains' # <<>>
  BY <1>1, <1>2 DEF RunningInv
<1>4. queue' = IF Matches(act, Head(tests)) THEN Append(queue, act) ELSE queue
  BY DEF ScanAction, action_add_queue_tail
<1>5. ASSUME phase' \in {"triggers", "main"}, NEW i \in DOMAIN ActionList,
             Matches(ActionList[i], AllHolding)'
      PROVE  Called(i)'
  <2>1. Matches(ActionList[i], AllHolding)
    BY <1>2, <1>5 DEF Matches
  <2>2. Called(i)
    BY <1>2, <1>5, <2>1 DEF OwedInv
  <2>3. CASE Queued(ActionList[i])
    <3>1. PICK k \in DOMAIN queue : queue[k] = ActionList[i]
      BY <2>3 DEF Queued
    <3>2. k \in DOMAIN queue' /\ queue'[k] = ActionList[i]
      BY <1>1, <1>4, <3>1
    <3>3. QED BY <3>2 DEF Called, Queued
  <2>4. CASE Pending(i)
    <3>1. PICK k \in DOMAIN tests :
             /\ tests[k] = AllHolding \/ tests[k] = TriggerOf[ActionList[i]]
             /\ k = 1 => i >= idx
      BY <2>4 DEF Pending
    <3>2. CASE k = 1 /\ i = idx
      <4>1. Matches(act, Head(tests))
        BY <1>1, <2>1, <3>1, <3>2 DEF Matches
      <4>2. Len(queue) + 1 \in DOMAIN queue' /\ queue'[Len(queue) + 1] = act
        BY <1>1, <1>4, <4>1
      <4>3. QED BY <3>2, <4>2 DEF Called, Queued
    <3>3. CASE ~(k = 1 /\ i = idx)
      <4>1. k = 1 => i >= idx'
        BY <1>1, <1>2, <3>1, <3>3, ActionAssumption
      <4>2. Pending(i)'
        BY <1>2, <3>1, <4>1 DEF Pending
      <4>3. QED BY <4>2 DEF Called
    <3>4. QED BY <3>2, <3>3
  <2>5. QED BY <1>2, <2>2, <2>3, <2>4 DEF Called
<1>6. QED BY <1>3, <1>5 DEF OwedInv

LEMMA TakeOwed == QInv /\ OwedInv /\ action_remove_queue_head => OwedInv'
<1> SUFFICES ASSUME QInv, OwedInv, action_remove_queue_head, ~requeued' PROVE OwedInv'
  BY DEF OwedInv
<1> DEFINE act == next[Root]
<1>1. /\ ~requeued /\ UNCHANGED <<props, phase, tests, idx, late>> /\ queue \in Seq(Actions)
      /\ ran' = ran \cup {act}
  BY DEF action_remove_queue_head, QInv, Scalars
<1>2. Ring(next, prev, queue) /\ Distinct(queue) /\ next[Root] # Root
  BY <1>1 DEF QInv, QueueIntact, action_remove_queue_head, list_empty
<1>3. queue # <<>> /\ queue' = Tail(queue)
  BY <1>1, <1>2, RemoveHead DEF QInv, LinkInv, action_remove_queue_head
<1>4. act = queue[1]
  <2>1. Node(queue, 0) = Root /\ Node(queue, 1) = queue[1] /\ 0 \in 0 .. Len(queue)
    BY <1>1, <1>3 DEF Node
  <2>2. QED BY <1>2, <2>1 DEF Ring
<1>5. drains' # <<>>
  <2>1. drains \in Seq(Seq(Command)) /\ drains # <<>> /\ act \in Actions
    BY <1>1, <1>3, <1>4 DEF QInv, Scalars, action_remove_queue_head, Draining
  <2>2. <<commands[act]>> \in Seq(Seq(Command)) /\ Tail(drains) \in Seq(Seq(Command))
    BY <2>1 DEF QInv, Scalars
  <2>3. Len(<<commands[act]>> \o Tail(drains)) = 1 + Len(Tail(drains))
    BY <2>2
  <2>4. QED BY <2>2, <2>3 DEF action_remove_queue_head
<1>6. ASSUME phase' \in {"triggers", "main"}, NEW i \in DOMAIN ActionList,
             Matches(ActionList[i], AllHolding)'
      PROVE  Called(i)'
  <2>1. Called(i)
    BY <1>1, <1>6 DEF OwedInv, Matches
  <2>2. CASE Queued(ActionList[i])
    <3>1. PICK k \in DOMAIN queue : queue[k] = ActionList[i]
      BY <2>2 DEF Queued
    <3>2. CASE k = 1
      BY <1>1, <1>4, <3>1, <3>2 DEF Called
    <3>3. CASE k # 1
      <4>1. k - 1 \in DOMAIN queue' /\ queue'[k - 1] = ActionList[i]
        BY <1>1, <1>3, <3>1, <3>3
      <4>2. QED BY <4>1 DEF Called, Queued
    <3>4. QED BY <3>2, <3>3
  <2>3. CASE Pending(i)
    BY <1>1, <2>3 DEF Pending, Called
  <2>4. QED BY <1>1, <2>1, <2>2, <2>3 DEF Called
<1>7. QED BY <1>5, <1>6 DEF OwedInv

\* Setting a property makes no other trigger hold than its own.
LEMMA SetHolds ==
    ASSUME NEW set \in PropTriggers, NEW act \in Actions, QInv,
           props' = [props EXCEPT ![set.name] = set.value],
           Matches(act, AllHolding)'
    PROVE  TriggerOf[act] = set \/ (TriggerOf[act] # set /\ Matches(act, AllHolding))
<1>1. TriggerOf[act] \in PropTriggers /\ props'[TriggerOf[act].name] = TriggerOf[act].value
  BY DEF Matches
<1>2. props \in [Props -> Values \cup {NoValue}] /\ set.name \in Props
  BY DEF QInv, Scalars, PropTriggers
<1>3. CASE TriggerOf[act].name = set.name
  <2>1. TriggerOf[act].value = set.value
    BY <1>1, <1>2, <1>3
  <2>2. TriggerOf[act] = set
    BY <1>1, <1>3, <2>1 DEF PropTriggers
  <2>3. QED BY <2>2
<1>4. CASE TriggerOf[act].name # set.name
  <2>1. props'[TriggerOf[act].name] = props[TriggerOf[act].name]
    BY <1>1, <1>2, <1>4 DEF PropTriggers
  <2>2. QED BY <1>1, <1>4, <2>1 DEF Matches
<1>5. QED BY <1>3, <1>4

\* A set is followed by a scan for it, or it is late.
LEMMA SetOwed ==
    ASSUME QInv, OwedInv, ~requeued, NEW set \in PropTriggers, tests = <<>>,
           props' = [props EXCEPT ![set.name] = set.value],
           UNCHANGED <<queue, ran, phase>>, phase \in {"triggers", "main"},
           \/ late' = late \cup {set}
           \/ tests' = <<set>> /\ idx' = 1 /\ late' = late \ {set},
           NEW i \in DOMAIN ActionList, Matches(ActionList[i], AllHolding)'
    PROVE  Called(i)'
<1> DEFINE act == ActionList[i]
<1>1. act \in Actions /\ i \in Nat \ {0}
  BY ActionAssumption
<1>2. CASE TriggerOf[act] = set
  <2>1. CASE late' = late \cup {set}
    BY <1>2, <2>1 DEF Called
  <2>2. CASE tests' = <<set>> /\ idx' = 1
    <3>1. 1 \in DOMAIN tests' /\ tests'[1] = TriggerOf[act] /\ i >= idx'
      BY <1>1, <1>2, <2>2
    <3>2. QED BY <3>1 DEF Called, Pending
  <2>3. QED BY <2>1, <2>2
<1>3. CASE TriggerOf[act] # set /\ Matches(act, AllHolding)
  <2>1. Called(i) /\ ~Pending(i)
    BY <1>3 DEF OwedInv, Pending
  <2>2. Queued(act)' = Queued(act)
    BY DEF Queued
  <2>3. QED BY <1>3, <2>1, <2>2 DEF Called
<1>4. QED BY <1>1, <1>2, <1>3, SetHolds

LEMMA NextOwed == QInv /\ RunningInv /\ OwedInv /\ [Next]_vars => OwedInv'
<1> SUFFICES ASSUME QInv, RunningInv, OwedInv, [Next]_vars, ~requeued' PROVE OwedInv'
  BY DEF OwedInv
<1>1. CASE ScanAction \/ action_remove_queue_head
  BY <1>1, ScanActionOwed, TakeOwed
<1> DEFINE Due == \A i \in DOMAIN ActionList : Matches(ActionList[i], AllHolding) => Called(i)
<1>2. CASE ScanEnds
  <2>1. /\ ~requeued /\ UNCHANGED <<props, phase, drains, queue, ran, late>>
        /\ tests' = Tail(tests) /\ idx' = 1 /\ idx \notin DOMAIN ActionList
        /\ tests \in Seq(Tests) /\ tests # <<>> /\ idx \in Nat \ {0}
    BY <1>2 DEF ScanEnds, QInv, Scalars
  <2>2. ASSUME NEW i \in DOMAIN ActionList, Pending(i) PROVE Pending(i)'
    <3>1. PICK k \in DOMAIN tests :
             /\ tests[k] = AllHolding \/ tests[k] = TriggerOf[ActionList[i]]
             /\ k = 1 => i >= idx
      BY <2>2 DEF Pending
    <3>2. k # 1 /\ i >= 1
      BY <2>1, <3>1, ActionAssumption
    <3>3. k - 1 \in DOMAIN tests' /\ tests'[k - 1] = tests[k]
      BY <2>1, <3>1, <3>2
    <3>4. QED BY <2>1, <3>1, <3>2, <3>3 DEF Pending
  <2>3. \A i \in DOMAIN ActionList : Called(i) => Called(i)'
    BY <2>1, <2>2 DEF Called, Queued
  <2>4. QED BY <2>1, <2>3 DEF OwedInv, Matches
<1>3. CASE DrainReturns
  <2>1. /\ ~requeued /\ UNCHANGED <<props, phase, tests, idx, queue, ran, late>>
        /\ next[Root] = Root /\ queue \in Seq(Actions)
    BY <1>3 DEF DrainReturns, list_empty, QInv, Scalars
  <2>2. queue = <<>>
    <3>1. Ring(next, prev, queue)
      BY <2>1 DEF QInv, QueueIntact
    <3>2. Node(queue, 1) = Root
      <4>1. 0 \in 0 .. Len(queue) /\ Node(queue, 0) = Root
        BY <2>1 DEF Node
      <4>2. QED BY <2>1, <3>1, <4>1 DEF Ring
    <3>3. QED BY <2>1, <3>2, ActionAssumption DEF Node
  <2>3. \A i \in DOMAIN ActionList : Called(i) => Called(i)'
    BY <2>1 DEF Called, Queued, Pending
  <2>4. QED BY <2>1, <2>2, <2>3 DEF OwedInv, Matches
<1>4. CASE do_trigger \/ OtherCommand
  <2>1. UNCHANGED <<props, phase, queue, requeued, ran, late>> /\ drains' # <<>> /\ tests = <<>>
    BY <1>4, DrainsOn DEF do_trigger, OtherCommand, CommandIs, Draining
  <2>2. \A i \in DOMAIN ActionList : Called(i) => Called(i)'
    BY <2>1 DEF Called, Queued, Pending
  <2>3. QED BY <2>1, <2>2 DEF OwedInv, Matches
<1>5. CASE do_setprop
  <2> DEFINE set == Head(Head(drains)).arg
  <2>1. CommandIs("setprop") /\ tests = <<>>
    BY <1>5 DEF do_setprop, CommandIs, Draining
  <2>2. set \in PropTriggers
    BY <2>1, CommandTop DEF Command
  <2>3. drains' # <<>> /\ UNCHANGED <<queue, requeued, ran, phase>>
        /\ props' = [props EXCEPT ![set.name] = set.value]
    BY <1>5, DrainsOn DEF do_setprop
  <2>4. phase \in {"triggers", "main"} =>
           \/ late' = late \cup {set}
           \/ tests' = <<set>> /\ idx' = 1 /\ late' = late \ {set}
    BY <1>5 DEF do_setprop, TriggersEnabled, Nest
  <2> HIDE DEF set
  <2>5. QED BY <2>1, <2>2, <2>3, <2>4, SetOwed DEF OwedInv
<1>6. CASE RunEarlyInit \/ RunInit \/ RunBoot
  <2>1. drains' # <<>> /\ phase' \notin {"triggers", "main"}
    BY <1>6, DrainsOn DEF RunEarlyInit, RunInit, RunBoot
  <2>2. QED BY <2>1 DEF OwedInv
<1>7. CASE RunHolding
  <2>1. drains' # <<>> /\ tests' = <<AllHolding>> /\ idx' = 1
    BY <1>7, DrainsOn DEF RunHolding, Fire
  <2>2. 1 \in DOMAIN tests' /\ tests'[1] = AllHolding
    BY <2>1
  <2>3. \A i \in DOMAIN ActionList : Pending(i)'
    BY <2>1, <2>2, ActionAssumption DEF Pending
  <2>4. QED BY <2>1, <2>3 DEF OwedInv, Called
<1>8. CASE EnableTriggers
  <2>1. /\ UNCHANGED <<props, queue, requeued, ran, late, tests, idx, drains>>
        /\ phase \in {"triggers", "main"}
    BY <1>8 DEF EnableTriggers
  <2>2. \A i \in DOMAIN ActionList : Called(i) => Called(i)'
    BY <2>1 DEF Called, Queued, Pending
  <2>3. QED BY <2>1, <2>2 DEF OwedInv, Matches
<1>9. CASE \E set \in ClientSets : property_set(set)
  <2>1. PICK set \in ClientSets : property_set(set)
    BY <1>9
  <2>2. set \in PropTriggers /\ drains' # <<>>
    BY <1>9, DrainsOn, ActionAssumption
  <2>3. /\ tests = <<>> /\ UNCHANGED <<queue, requeued, ran, phase>> /\ phase = "main"
        /\ props' = [props EXCEPT ![set.name] = set.value]
        /\ tests' = <<set>> /\ idx' = 1 /\ late' = late \ {set}
    BY <2>1 DEF property_set, Idle, Fire
  <2>4. QED BY <2>2, <2>3, SetOwed DEF OwedInv
<1>10. CASE UNCHANGED vars
  <2>1. /\ UNCHANGED <<props, phase, queue, requeued, ran, late, tests, idx, drains>>
    BY <1>10 DEF vars
  <2>2. \A i \in DOMAIN ActionList : Called(i) => Called(i)'
    BY <2>1 DEF Called, Queued, Pending
  <2>3. QED BY <2>1, <2>2 DEF OwedInv, Matches
<1>11. QED BY <1>1, <1>2, <1>3, <1>4, <1>5, <1>6, <1>7, <1>8, <1>9, <1>10
           DEF Next, InitNext

\* For every init.rc: whenever init is back in its loop, what the properties
\* call for has been run, but for what was set too late for the one scan and too
\* early for the other.
THEOREM PropertiesHaveRun == Spec => []TriggeredHaveRun
<1>1. Init => OwedInv
  BY DEF Init, QueueInit, OwedInv
<1>2. ASSUME OwedInv, phase = "main", Idle, ~requeued, NEW i \in DOMAIN ActionList,
             Matches(ActionList[i], AllHolding)
      PROVE  ActionList[i] \in ran \/ TriggerOf[ActionList[i]] \in late
  <2>1. Called(i) /\ queue = <<>> /\ tests = <<>>
    BY <1>2 DEF OwedInv, Idle
  <2>2. QED BY <2>1 DEF Called, Queued, Pending
<1>3. OwedInv => TriggeredHaveRun
  BY <1>2 DEF TriggeredHaveRun
<1>4. QED BY <1>1, <1>3, InitQ, NextQ, InitRunning, NextRunning, NextOwed, PTL DEF Spec
=============================================================================
