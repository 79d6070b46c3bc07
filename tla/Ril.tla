----------------------------------- MODULE Ril -----------------------------------
(***************************************************************************)
(* The daemon around the vendor library: the event loop of ril_event.cpp,  *)
(* and the part of ril.cpp that accepts a client, reads its commands,      *)
(* writes answers and events to it, and holds the wake lock.               *)
(*                                                                         *)
(* Three threads run it: E, the event loop; V, a thread of the vendor      *)
(* library, which reports events and completes requests that onRequest     *)
(* left to it; M, main().  The code of a thread is a stack of              *)
(* instructions; one instruction is what the thread does between two       *)
(* points where another thread can tell.  A C function is the operator of  *)
(* its name and gives its instructions.  What is in the parcels is left to *)
(* RilExchange, what the vendor library does to ReferenceRil.              *)
(*                                                                         *)
(* Clients are connections.  A descriptor number that is closed is the     *)
(* lowest free one, so accept() gives it to the next connection: sock is   *)
(* the connection the number of s_fdCommand stands for.                    *)
(***************************************************************************)
EXTENDS Integers, Sequences, FiniteSets, Functions

CONSTANTS
    Null,
    Conns,           \* connections
    MAX_FD_EVENTS,   \* slots of watch_table
    Blocks,          \* memory for UserCallbackInfo: malloc gives the lowest free
    Requests,        \* memory for RequestInfo
    Scenarios        \* the instances: see below

\* An instance bounds what happens outside the daemon:
\*   phones     connections of the phone process, in the order it makes them
\*   strangers  connections of processes of other users
\*   early      whether connections are made before main() has finished
\*   commands   how many commands the phone process sends
\*   events     how many events V reports, and wakes those that hold the wake lock
\*   options    what the debug client may ask for, once
\*   faults     how often accept() or a write() fails
ASSUME RilAssumption ==
    /\ Null \notin Conns /\ Null \notin Blocks /\ Null \notin {"E", "V", "M"}
    /\ Null \notin {"wakeup", "listen", "debug", "commands"}
    /\ MAX_FD_EVENTS \in Nat /\ MAX_FD_EVENTS >= 4
    /\ Blocks \subseteq Nat /\ Requests = 1..Cardinality(Requests)
    /\ \A s \in Scenarios :
        /\ s.phones \in Seq(Conns) /\ s.strangers \subseteq Conns
        /\ Range(s.phones) \intersect s.strangers = {} /\ IsInjective(s.phones)
        /\ s.early \in BOOLEAN
        /\ s.commands \in Nat /\ s.commands + 2 <= Cardinality(Requests)
        /\ s.wakes \subseteq {"radio", "nitz", "network"}
        /\ s.options \subseteq {"off", "local", "on", "unsol"}
        /\ s.events \in Nat /\ s.faults \in Nat

VARIABLES
    scenario,                    \* the instance
    work,                        \* of each thread: the instructions it has left
    dead, ended,                 \* the process has died; ril_event_loop has returned
    client,                      \* of each connection: none, open, gone
    backlog,                     \* connections not accepted yet
    inbox,                       \* of each connection: commands not read yet
    fdCommand, sock,             \* s_fdCommand >= 0; the connection behind its number
    watch, sel,                  \* watch_table; what E has given select()
    wake,                        \* the wakeup pipe holds a byte
    timers, block, last,         \* timer_list; the UserCallbackInfos; s_last_wake_timeout_info
    lock,                        \* the wake lock is held
    started, registered,         \* s_started, s_registerCalled
    request, vendor,             \* the RequestInfos; those left to V
    stash,                       \* s_lastNITZTimeData
    writer,                      \* the holder of s_writeMutex
    debug,                       \* what the debug client waiting asks for
    stream,                      \* history, of each connection: whether its frames are whole
    cut,                         \* history: the socket watched was closed by another
                                 \* than processCommandsCallback
    used                         \* requests, events, faults and debug clients so far

loopVars == <<dead, ended, watch, sel, wake>>
timerVars == <<timers, block, last, lock>>
startVars == <<started, registered>>
sockVars == <<client, backlog, inbox, fdCommand, sock, cut>>
requestVars == <<request, vendor>>
sendVars == <<stash, writer, stream>>
vars == <<scenario, work, loopVars, timerVars, startVars, sockVars, requestVars, sendVars, debug, used>>

E == "E"  V == "V"  M == "M"
Threads == {E, V, M}
Phones == Range(scenario.phones)
NoRequest == [conn |-> Null, local |-> FALSE, cancelled |-> FALSE, pending |-> FALSE]
Free == "free"

Done == [NoRequest EXCEPT !.cancelled = TRUE]

\* Instructions
I(op) == [op |-> op]
Add(event) == [op |-> "add", event |-> event]

\* main: the event loop is started before the vendor library and the sockets.
main == <<I("RIL_startEventLoop"), I("RIL_Init"), I("RIL_register"),
          Add("listen"), I("triggerEvLoop"), Add("debug"), I("triggerEvLoop")>>
eventLoop == <<I("ril_event_init"), Add("wakeup"), I("ril_event_loop")>>
Stacks == [t \in Threads |-> CASE t = E -> eventLoop [] t = M -> main [] OTHER -> <<>>]

Init ==
    /\ scenario \in Scenarios
    /\ work = Stacks
    /\ dead = FALSE /\ ended = FALSE
    /\ watch = [i \in 1..MAX_FD_EVENTS |-> Null]
    /\ sel = [fds |-> {}, wait |-> FALSE, sock |-> Null] /\ wake = FALSE
    /\ timers = <<>> /\ block = [b \in Blocks |-> Free] /\ last = Null
    /\ lock = FALSE
    /\ started = FALSE /\ registered = FALSE
    /\ client = [c \in Conns |-> "none"] /\ backlog = <<>> /\ inbox = [c \in Conns |-> 0]
    /\ fdCommand = FALSE /\ sock = Null /\ cut = FALSE
    /\ request = [r \in Requests |-> NoRequest] /\ vendor = {}
    /\ stash = Null /\ writer = Null /\ stream = [c \in Conns |-> "whole"]
    /\ debug = Null
    /\ used = [commands |-> 0, events |-> 0, faults |-> 0, debugs |-> 0]

At(t, op) == work[t] # <<>> /\ Head(work[t]).op = op
\* The thread goes on with the given instructions, then with what it had left.
Goes(t, instructions) == work' = [work EXCEPT ![t] = instructions \o Tail(@)]

\* The process dies (SIGPIPE, an assertion, a segmentation fault): init starts
\* it again, from Init, and every client has lost its connection.
Dies ==
    /\ work' = [t \in Threads |-> <<>>]
    /\ dead' = TRUE
    /\ UNCHANGED <<ended, watch, sel, wake, timerVars, startVars, sockVars, requestVars, sendVars,
                   debug, used>>

-----------------------------------------------------------------------------
(* The wake-up pipe, the table of events and the timers. *)

slots == DOMAIN watch
Watched == {watch[i] : i \in slots} \ {Null}
WithEvent(w, e) ==
    LET first(i) == w[i] = Null /\ \A j \in slots : w[j] = Null => i <= j
    IN  [i \in slots |-> IF first(i) THEN e ELSE w[i]]
WithoutEvents(w, events) == [i \in slots |-> IF w[i] \in events THEN Null ELSE w[i]]

ril_event_add(t) ==
    /\ At(t, "add")
    /\ watch' = WithEvent(watch, Head(work[t]).event)
    /\ Goes(t, <<>>)
    /\ UNCHANGED <<dead, ended, sel, wake, timerVars, startVars, sockVars, requestVars, sendVars,
                   debug, used>>

\* Not on the event loop's own thread, whose stacks leave it out.  Before the pipe is made the byte goes to
\* descriptor 0.
\* Mutant: only a watched event wakes the loop, a timer does not.
triggerEvLoop_NotForTimers(t) ==
    /\ At(t, "triggerEvLoop")
    /\ wake' = (wake \/ (t = M /\ "wakeup" \in Watched))
    /\ Goes(t, <<>>)
    /\ UNCHANGED <<dead, ended, watch, sel, timerVars, startVars, sockVars, requestVars, sendVars,
                   debug, used>>
triggerEvLoop(t) ==
    /\ At(t, "triggerEvLoop")
    /\ wake' = (wake \/ "wakeup" \in Watched)
    /\ Goes(t, <<>>)
    /\ UNCHANGED <<dead, ended, watch, sel, timerVars, startVars, sockVars, requestVars, sendVars,
                   debug, used>>

\* internalRequestTimedCallback: allocate, add to timer_list, wake the loop, and
\* only then is the caller's variable set.  Every timeout is one second, so the
\* sorted list is in order of arrival.  What malloc gives is not looked at.
Allocated(b) == block[b] = Free /\ \A a \in Blocks : a < b => block[a] # Free
internalRequestTimedCallback(t) ==
    /\ At(t, "timer")
    /\ \/ \E b \in Blocks :
            /\ Allocated(b)
            /\ block' = [block EXCEPT ![b] = "armed"]
            /\ timers' = Append(timers, b)
            /\ Goes(t, (IF t = E THEN <<>> ELSE <<I("triggerEvLoop")>>)
                       \o <<[op |-> "last", block |-> b]>>)
            /\ UNCHANGED <<loopVars, last, lock, startVars, sockVars, requestVars, sendVars, debug, used>>
       \/ (\A b \in Blocks : block[b] # Free) /\ Dies

setLast(t) ==
    /\ At(t, "last")
    /\ last' = Head(work[t]).block
    /\ Goes(t, <<>>)
    /\ UNCHANGED <<loopVars, timers, block, lock, startVars, sockVars, requestVars, sendVars,
                   debug, used>>

\* Cancel the previous request: the pointer is read, then written through.  The
\* block may have been freed (the write is then lost, or spoils the heap), and
\* allocated again.
schedule(t) ==
    /\ At(t, "schedule")
    /\ Goes(t, IF last = Null THEN <<I("timer")>>
               ELSE <<[op |-> "cancel", block |-> last], I("timer")>>)
    /\ UNCHANGED <<loopVars, timerVars, startVars, sockVars, requestVars, sendVars, debug, used>>

cancelPrevious(t) ==
    /\ At(t, "cancel")
    /\ LET b == Head(work[t]).block
       IN  \/ /\ block' = IF block[b] = Free THEN block ELSE [block EXCEPT ![b] = "cancelled"]
              /\ Goes(t, <<>>)
              /\ UNCHANGED <<loopVars, timers, last, lock, startVars, sockVars,
                             requestVars, sendVars, debug, used>>
           \/ block[b] = Free /\ Dies

-----------------------------------------------------------------------------
(* The event loop. *)

\* The set of descriptors is copied and the timeout computed without the mutex.
snapshot ==
    /\ At(E, "ril_event_loop")
    /\ sel' = [fds |-> Watched, wait |-> timers # <<>>, sock |-> Null]
    /\ Goes(E, <<I("enter")>>)
    /\ UNCHANGED <<dead, ended, watch, wake, timerVars, startVars, sockVars, requestVars, sendVars,
                   debug, used>>

\* select() holds the files it was given; one that is closed is an error, and
\* the loop is left for ever.
enter ==
    /\ At(E, "enter")
    /\ ended' = ("commands" \in sel.fds /\ sock = Null)
    /\ sel' = [sel EXCEPT !.sock = sock]
    /\ Goes(E, IF ended' THEN <<>> ELSE <<I("select")>>)
    /\ UNCHANGED <<dead, watch, wake, timerVars, startVars, sockVars, requestVars, sendVars, debug, used>>

Ready(event) ==
    CASE event = "wakeup" -> wake
      [] event = "listen" -> backlog # <<>>
      [] event = "debug" -> debug # Null
      [] event = "commands" -> inbox[sel.sock] > 0 \/ client[sel.sock] = "gone"

\* The events that are ready, in the order of their slots; the listening socket,
\* which is not persistent, leaves the table.
processReadReadies(ready) == WithoutEvents(watch, ready \intersect {"listen"})

\* The slots of a set in their order.
InOrder(S) == {q \in [1..Cardinality(S) -> S] : \A i, j \in DOMAIN q : i < j => q[i] < q[j]}

\* select() returns; the timers that are due go first, then what is ready.
select ==
    /\ At(E, "select")
    /\ LET ready == {event \in sel.fds : Ready(event)}
       IN \E due \in 0..Len(timers), reads \in InOrder({i \in slots : watch[i] \in ready}) :
            /\ ready # {} \/ (sel.wait /\ due > 0)
            /\ Goes(E, [i \in 1..due |-> [op |-> "userTimerCallback", block |-> timers[i]]]
                       \o [i \in 1..Len(reads) |-> I(watch[reads[i]])] \o <<I("ril_event_loop")>>)
            /\ watch' = processReadReadies(ready)
            /\ timers' = SubSeq(timers, due + 1, Len(timers))
    /\ UNCHANGED <<dead, ended, sel, wake, block, last, lock, startVars, sockVars, requestVars, sendVars,
                   debug, used>>

processWakeupCallback ==
    /\ At(E, "wakeup")
    /\ wake' = FALSE
    /\ Goes(E, <<>>)
    /\ UNCHANGED <<dead, ended, watch, sel, timerVars, startVars, sockVars, requestVars, sendVars,
                   debug, used>>

\* wakeTimeoutCallback, unless cancelled; then the block is given back.
userTimerCallback ==
    /\ At(E, "userTimerCallback")
    /\ lock' = (lock /\ block[Head(work[E]).block] = "cancelled")
    /\ Goes(E, <<[op |-> "free", block |-> Head(work[E]).block]>>)
    /\ UNCHANGED <<loopVars, timers, block, last, startVars, sockVars, requestVars, sendVars,
                   debug, used>>

freeTimer ==
    /\ At(E, "free")
    /\ LET b == Head(work[E]).block
       IN  /\ last' = IF last = b THEN Null ELSE last
           /\ block' = [block EXCEPT ![b] = Free]
    /\ Goes(E, <<>>)
    /\ UNCHANGED <<loopVars, timers, lock, startVars, sockVars, requestVars, sendVars, debug, used>>

-----------------------------------------------------------------------------
(* Writing to the client. *)

\* sendResponseRaw: s_fdCommand is read before s_writeMutex is taken.  Without a
\* client the caller of a NITZ event keeps it.
KeepNITZ(frame) == IF frame.nitz # Null /\ frame.stash THEN <<[op |-> "stash", nitz |-> frame.nitz]>>
                   ELSE <<>>
sendResponseRaw(t) ==
    /\ At(t, "send")
    /\ LET frame == Head(work[t]).frame
       IN  Goes(t, IF fdCommand THEN <<[op |-> "header", frame |-> frame]>> ELSE KeepNITZ(frame))
    /\ UNCHANGED <<loopVars, timerVars, startVars, sockVars, requestVars, sendVars, debug, used>>

\* What the two halves of a frame leave of a stream: a header must be followed by
\* its payload.  A payload whose header went to an earlier connection makes the
\* stream useless too, in another way.
AfterHeader(c, t) == IF stream[c] = "whole" THEN t ELSE IF stream[c] = "orphan" THEN "orphan" ELSE "torn"
AfterPayload(c, t, conn) ==
    IF stream[c] = t THEN "whole"
    ELSE IF c # conn \/ stream[c] = "orphan" THEN "orphan" ELSE "torn"

MayWrite(t) == (At(t, "header") /\ writer = Null) \/ At(t, "payload")

\* s_writeMutex is taken for the header and given back after the payload.  A
\* write succeeds; or it fails, because the number is closed or the client does
\* not read (the socket does not block), and the number is closed; or nobody is
\* left to read, and SIGPIPE ends the process.
blockingWrite(t) ==
    /\ MayWrite(t)
    /\ LET i == Head(work[t])
       IN  \/ /\ sock # Null /\ client[sock] = "open"
              /\ IF i.op = "header"
                 THEN /\ stream' = [stream EXCEPT ![sock] = AfterHeader(sock, t)]
                      /\ writer' = t
                      /\ Goes(t, <<[op |-> "payload", frame |-> i.frame, conn |-> sock]>>)
                 ELSE /\ stream' = [stream EXCEPT ![sock] = AfterPayload(sock, t, i.conn)]
                      /\ writer' = Null
                      /\ Goes(t, <<>>)
              /\ UNCHANGED <<dead, used>>
           \/ /\ sock = Null \/ used.faults < scenario.faults
              /\ used' = IF sock = Null THEN used ELSE [used EXCEPT !.faults = @ + 1]
              /\ writer' = t
              /\ Goes(t, <<[op |-> "close", frame |-> i.frame]>>)
              /\ UNCHANGED <<dead, stream>>
           \/ /\ sock # Null /\ client[sock] = "gone"
              /\ work' = [q \in Threads |-> <<>>] /\ dead' = TRUE
              /\ UNCHANGED <<writer, stream, used>>
    /\ UNCHANGED <<ended, watch, sel, wake, timerVars, startVars, sockVars, requestVars, stash, debug>>

\* close() of whatever connection a number stands for; its client sees the end.
Closed(c) == [client EXCEPT ![c] = "gone"]
closeAfterWrite(t) ==
    /\ At(t, "close")
    /\ client' = IF sock = Null THEN client ELSE Closed(sock)
    /\ sock' = Null
    /\ cut' = (cut \/ sock # Null)
    /\ writer' = Null
    /\ Goes(t, KeepNITZ(Head(work[t]).frame))
    /\ UNCHANGED <<loopVars, timerVars, startVars, backlog, inbox, fdCommand, requestVars, stash,
                   stream, debug, used>>

keepNITZ(t) ==
    /\ At(t, "stash")
    /\ stash' = Head(work[t]).nitz
    /\ Goes(t, <<>>)
    /\ UNCHANGED <<loopVars, timerVars, startVars, sockVars, requestVars, writer, stream, debug, used>>

-----------------------------------------------------------------------------
(* Answers and events. *)

\* A frame: the NITZ event it is and whether its caller keeps it when it is not
\* sent.
NoFrame == [nitz |-> Null, stash |-> FALSE]

\* The wake lock is taken first; an event that cannot be marshalled gives it back,
\* one that was sent, or not, has it released a second later.
\* Mutant: an event nobody could be sent sets no timer.
RIL_onUnsolicitedResponse_IfSent(event, nitz, marshals) ==
    LET wakes == event \in scenario.wakes
    IN  (IF wakes THEN <<I("grabPartialWakeLock")>> ELSE <<>>)
        \o (IF ~marshals THEN IF wakes THEN <<I("releaseWakeLock")>> ELSE <<>>
            ELSE <<[op |-> "send", frame |-> [NoFrame EXCEPT !.nitz = nitz, !.stash = TRUE]]>>
                 \o (IF wakes /\ fdCommand THEN <<I("schedule")>> ELSE <<>>))
RIL_onUnsolicitedResponse(event, nitz, marshals) ==
    LET wakes == event \in scenario.wakes
    IN  (IF wakes THEN <<I("grabPartialWakeLock")>> ELSE <<>>)
        \o (IF ~marshals THEN IF wakes THEN <<I("releaseWakeLock")>> ELSE <<>>
            ELSE <<[op |-> "send", frame |-> [NoFrame EXCEPT !.nitz = nitz, !.stash = TRUE]]>>
                 \o (IF wakes THEN <<I("schedule")>> ELSE <<>>))

grabPartialWakeLock(t) ==
    /\ At(t, "grabPartialWakeLock")
    /\ lock' = TRUE
    /\ Goes(t, <<>>)
    /\ UNCHANGED <<loopVars, timers, block, last, startVars, sockVars, requestVars, sendVars,
                   debug, used>>

releaseWakeLock(t) ==
    /\ At(t, "releaseWakeLock")
    /\ lock' = FALSE
    /\ Goes(t, <<>>)
    /\ UNCHANGED <<loopVars, timers, block, last, startVars, sockVars, requestVars, sendVars,
                   debug, used>>

\* V reports an event, once the vendor library is started; before RIL_register
\* nothing is done with it.
Report ==
    /\ ~dead /\ work[V] = <<>> /\ Len(work[M]) < Len(main) - 1
    /\ used.events < scenario.events
    /\ used' = [used EXCEPT !.events = @ + 1]
    /\ \E event \in {"nitz", "signal"}, marshals \in BOOLEAN :
        work' = [work EXCEPT ![V] = IF ~registered THEN <<>>
                   ELSE RIL_onUnsolicitedResponse(event,
                            IF event = "nitz" THEN used.events + 1 ELSE Null, marshals)]
    /\ UNCHANGED <<loopVars, timerVars, startVars, sockVars, requestVars, sendVars, debug>>

\* A RequestInfo is put on s_pendingRequests, and onRequest completes the request
\* itself or leaves it to V.
NewRequest(r, conn, local) ==
    /\ request[r] = NoRequest /\ \A q \in Requests : q < r => request[q] # NoRequest
    /\ request' = [request EXCEPT ![r] =
            [conn |-> conn, local |-> local, cancelled |-> FALSE, pending |-> TRUE]]
Complete(r) == <<[op |-> "complete", request |-> r]>>

issueLocalRequest ==
    /\ At(E, "issueLocalRequest")
    /\ \E r \in Requests :
        /\ NewRequest(r, Null, TRUE)
        /\ \/ vendor' = vendor /\ Goes(E, Complete(r))
           \/ vendor' = vendor \union {r} /\ Goes(E, <<>>)
    /\ UNCHANGED <<loopVars, timerVars, startVars, sockVars, sendVars, debug, used>>

\* V completes a request that was left to it.
Answer ==
    /\ ~dead /\ work[V] = <<>>
    /\ \E r \in vendor : vendor' = vendor \ {r} /\ work' = [work EXCEPT ![V] = Complete(r)]
    /\ UNCHANGED <<loopVars, timerVars, startVars, sockVars, request, sendVars, debug, used>>

\* The request is taken off the list; only then is it looked at whether it is
\* local or was cancelled.
RIL_onRequestComplete(t) ==
    /\ At(t, "complete")
    /\ LET r == Head(work[t]).request
       IN  /\ request' = [request EXCEPT ![r] = Done]
           /\ Goes(t, IF ~request[r].pending \/ request[r].local \/ request[r].cancelled THEN <<>>
                      ELSE <<[op |-> "send", frame |-> NoFrame]>>)
    /\ UNCHANGED <<loopVars, timerVars, startVars, sockVars, vendor, sendVars, debug, used>>

-----------------------------------------------------------------------------
(* Clients. *)

\* Mutant: nothing is marked.
Cancelled_None == request
\* onCommandsSocketClosed
Cancelled == [r \in Requests |->
    IF request[r].pending THEN [request[r] EXCEPT !.cancelled = TRUE] ELSE request[r]]

\* The commands that have arrived are read one after the other.  One that is
\* invalid is dropped, one whose parcel is refused stays pending for ever.
processCommand ==
    /\ At(E, "commands") /\ fdCommand /\ sock # Null /\ inbox[sock] > 0
    /\ inbox' = [inbox EXCEPT ![sock] = @ - 1]
    /\ LET again == I("commands")
       IN  \/ Goes(E, <<again>>) /\ UNCHANGED <<request, vendor>>
           \/ \E r \in Requests :
                /\ NewRequest(r, sock, FALSE)
                /\ \/ vendor' = vendor /\ Goes(E, <<again>>)
                   \/ vendor' = vendor /\ Goes(E, Complete(r) \o <<again>>)
                   \/ vendor' = vendor \union {r} /\ Goes(E, <<again>>)
    /\ UNCHANGED <<loopVars, timerVars, startVars, client, backlog, fdCommand, sock, cut, sendVars,
                   debug, used>>

\* Until there is nothing more to read.
commandsRead ==
    /\ At(E, "commands") /\ fdCommand /\ sock # Null
    /\ inbox[sock] = 0 /\ client[sock] = "open"
    /\ Goes(E, <<>>)
    /\ UNCHANGED <<loopVars, timerVars, startVars, sockVars, requestVars, sendVars, debug, used>>

\* End of stream, or an error because the number was closed.
\* Mutant: the event stays in the table.
commandsClosed_Watched(w) == WithEvent(w, "listen")
commandsClosed(w) == WithEvent(WithoutEvents(w, {"commands"}), "listen")
processCommandsClosed ==
    /\ At(E, "commands") /\ fdCommand
    /\ sock # Null => inbox[sock] = 0 /\ client[sock] = "gone"
    /\ sock' = Null /\ fdCommand' = FALSE /\ cut' = FALSE
    /\ watch' = commandsClosed(watch)
    /\ request' = Cancelled
    /\ Goes(E, <<>>)
    /\ UNCHANGED <<dead, ended, sel, wake, timerVars, startVars, client, backlog, inbox, vendor,
                   sendVars, debug, used>>

\* assert(fd == s_fdCommand)
commandsAssertion == At(E, "commands") /\ ~fdCommand /\ Dies

processCommandsCallback ==
    processCommand \/ commandsRead \/ processCommandsClosed \/ commandsAssertion

\* accept() before the credentials are looked at; an error lets the loop listen
\* again.
accept ==
    /\ At(E, "listen")
    /\ \/ /\ backlog # <<>>
          /\ fdCommand' = TRUE /\ cut' = FALSE /\ sock' = Head(backlog) /\ backlog' = Tail(backlog)
          /\ Goes(E, <<I("checkCredentials")>>)
          /\ UNCHANGED <<watch, used>>
       \/ /\ backlog = <<>> \/ used.faults < scenario.faults
          /\ used' = IF backlog = <<>> THEN used ELSE [used EXCEPT !.faults = @ + 1]
          /\ watch' = WithEvent(watch, "listen")
          /\ Goes(E, <<>>)
          /\ UNCHANGED <<fdCommand, sock, cut, backlog>>
    /\ UNCHANGED <<dead, ended, sel, wake, timerVars, startVars, client, inbox, requestVars, sendVars, debug>>

onNewCommandConnect == RIL_onUnsolicitedResponse("radio", Null, TRUE) \o <<I("sendNITZ")>>

\* A connection closed by V meanwhile has no peer whose credentials could be read.
acceptPhone ==
    /\ At(E, "checkCredentials") /\ sock \in Phones
    /\ watch' = WithEvent(watch, "commands")
    /\ Goes(E, onNewCommandConnect)
    /\ UNCHANGED <<dead, ended, sel, wake, timerVars, startVars, sockVars, requestVars, sendVars, debug, used>>

\* Mutant: the loop does not listen again.
refuseStranger_Deaf ==
    /\ At(E, "checkCredentials") /\ sock \notin Phones
    /\ client' = IF sock = Null THEN client ELSE Closed(sock)
    /\ sock' = Null /\ fdCommand' = FALSE /\ cut' = FALSE
    /\ request' = Cancelled
    /\ watch' = watch
    /\ Goes(E, <<>>)
    /\ UNCHANGED <<dead, ended, sel, wake, timerVars, startVars, backlog, inbox, vendor, sendVars,
                   debug, used>>
refuseStranger ==
    /\ At(E, "checkCredentials") /\ sock \notin Phones
    /\ client' = IF sock = Null THEN client ELSE Closed(sock)
    /\ sock' = Null /\ fdCommand' = FALSE /\ cut' = FALSE
    /\ request' = Cancelled
    /\ watch' = WithEvent(watch, "listen")
    /\ Goes(E, <<>>)
    /\ UNCHANGED <<dead, ended, sel, wake, timerVars, startVars, backlog, inbox, vendor, sendVars,
                   debug, used>>

\* The NITZ event kept is sent, and freed whether it was sent or not.
sendNITZ ==
    /\ At(E, "sendNITZ")
    /\ Goes(E, IF stash = Null THEN <<>>
               ELSE <<[op |-> "send", frame |-> [NoFrame EXCEPT !.nitz = stash]], I("freeNITZ")>>)
    /\ UNCHANGED <<loopVars, timerVars, startVars, sockVars, requestVars, sendVars, debug, used>>
freeNITZ ==
    /\ At(E, "freeNITZ")
    /\ stash' = Null
    /\ Goes(E, <<>>)
    /\ UNCHANGED <<loopVars, timerVars, startVars, sockVars, requestVars, writer, stream, debug, used>>

\* The debug client: requests of its own, an event, or the radio switched off and
\* the client's socket closed.
debugCallback ==
    /\ At(E, "debug")
    /\ debug' = Null
    /\ Goes(E, CASE debug = "off" -> <<I("issueLocalRequest"), I("closeCommand")>>
                 [] debug = "local" -> <<I("issueLocalRequest")>>
                 [] debug = "on" -> <<I("issueLocalRequest"), I("issueLocalRequest")>>
                 [] debug = "unsol" -> RIL_onUnsolicitedResponse("network", Null, TRUE))
    /\ UNCHANGED <<loopVars, timerVars, startVars, sockVars, requestVars, sendVars, used>>

closeCommand ==
    /\ At(E, "closeCommand")
    /\ client' = IF fdCommand /\ sock # Null THEN Closed(sock) ELSE client
    /\ sock' = IF fdCommand THEN Null ELSE sock
    /\ cut' = (cut \/ fdCommand)
    /\ fdCommand' = FALSE
    /\ Goes(E, <<>>)
    /\ UNCHANGED <<loopVars, timerVars, startVars, backlog, inbox, requestVars, sendVars, debug, used>>

-----------------------------------------------------------------------------
(* Starting, and the processes outside. *)

\* ril_event_init, then s_started is set.
ril_event_init ==
    /\ At(E, "ril_event_init")
    /\ started' = TRUE
    /\ Goes(E, <<>>)
    /\ UNCHANGED <<loopVars, timerVars, registered, sockVars, requestVars, sendVars, debug, used>>

RIL_startEventLoop ==
    /\ At(M, "RIL_startEventLoop") /\ started
    /\ Goes(M, <<>>)
    /\ UNCHANGED <<loopVars, timerVars, startVars, sockVars, requestVars, sendVars, debug, used>>

\* The vendor library starts its threads.
RIL_Init ==
    /\ At(M, "RIL_Init")
    /\ Goes(M, <<>>)
    /\ UNCHANGED <<loopVars, timerVars, startVars, sockVars, requestVars, sendVars, debug, used>>

RIL_register ==
    /\ At(M, "RIL_register")
    /\ registered' = TRUE
    /\ Goes(M, <<>>)
    /\ UNCHANGED <<loopVars, timerVars, started, sockVars, requestVars, sendVars, debug, used>>

\* The listening sockets exist before the daemon does.  The phone process makes a
\* connection when it has lost the one before.
Connect(c) ==
    /\ client[c] = "none"
    /\ scenario.early \/ work[M] = <<>>
    /\ c \in Phones \union scenario.strangers
    /\ \A i, j \in DOMAIN scenario.phones :
        (scenario.phones[i] = c /\ j < i) => client[scenario.phones[j]] = "gone"
    /\ client' = [client EXCEPT ![c] = "open"]
    /\ backlog' = Append(backlog, c)
    /\ UNCHANGED <<work, loopVars, timerVars, startVars, inbox, fdCommand, sock, cut,
                   requestVars, sendVars, debug, used>>

SendCommand(c) ==
    /\ client[c] = "open" /\ c \in Phones
    /\ used.commands < scenario.commands
    /\ used' = [used EXCEPT !.commands = @ + 1]
    /\ inbox' = [inbox EXCEPT ![c] = @ + 1]
    /\ UNCHANGED <<work, loopVars, timerVars, startVars, client, backlog, fdCommand, sock, cut,
                   requestVars, sendVars, debug>>

Hangup(c) ==
    /\ client[c] = "open"
    /\ client' = Closed(c)
    /\ UNCHANGED <<work, loopVars, timerVars, startVars, backlog, inbox, fdCommand, sock, cut,
                   requestVars, sendVars, debug, used>>

radiooptions(option) ==
    /\ debug = Null /\ used.debugs = 0
    /\ debug' = option
    /\ used' = [used EXCEPT !.debugs = 1]
    /\ UNCHANGED <<work, loopVars, timerVars, startVars, sockVars, requestVars, sendVars>>

Shared(t) ==
    \/ ril_event_add(t) \/ triggerEvLoop(t) \/ internalRequestTimedCallback(t) \/ setLast(t)
    \/ schedule(t) \/ cancelPrevious(t) \/ sendResponseRaw(t) \/ blockingWrite(t)
    \/ closeAfterWrite(t) \/ keepNITZ(t) \/ grabPartialWakeLock(t) \/ releaseWakeLock(t)
    \/ RIL_onRequestComplete(t)

Loop ==
    \/ ril_event_init \/ snapshot \/ enter \/ select \/ processWakeupCallback \/ userTimerCallback
    \/ freeTimer \/ issueLocalRequest \/ processCommandsCallback
    \/ accept \/ acceptPhone \/ refuseStranger \/ sendNITZ \/ freeNITZ \/ debugCallback \/ closeCommand

Step(t) ==
    \/ Shared(t)
    \/ t = E /\ Loop
    \/ t = M /\ (RIL_startEventLoop \/ RIL_Init \/ RIL_register)

Outside ==
    /\ ~dead
    /\ \/ \E c \in Conns : Connect(c) \/ SendCommand(c) \/ Hangup(c)
       \/ \E option \in scenario.options : radiooptions(option)

Run == (\E t \in Threads : Step(t)) /\ UNCHANGED scenario

Next == Run \/ ((Report \/ Answer \/ Outside) /\ UNCHANGED scenario)

\* The scheduler runs some thread that can run; nothing outside need ever happen.
Fairness == WF_vars(Run)

Spec == Init /\ [][Next]_vars /\ Fairness

-----------------------------------------------------------------------------
(* Properties. *)

Ops == {"ril_event_init", "add", "ril_event_loop", "enter", "select", "wakeup", "listen", "debug",
        "commands", "userTimerCallback", "free", "checkCredentials", "sendNITZ", "freeNITZ",
        "closeCommand", "issueLocalRequest", "RIL_startEventLoop",
        "RIL_Init", "RIL_register", "triggerEvLoop", "timer", "last", "schedule", "cancel", "send",
        "header", "payload", "close", "stash", "grabPartialWakeLock", "releaseWakeLock",
        "complete"}

TypeOK ==
    /\ \A t \in Threads : \A i \in DOMAIN work[t] : work[t][i].op \in Ops
    /\ ended \in BOOLEAN /\ fdCommand \in BOOLEAN /\ lock \in BOOLEAN /\ wake \in BOOLEAN
    /\ Watched \subseteq {"wakeup", "listen", "debug", "commands"}
    /\ \A i, j \in slots : watch[i] = watch[j] => i = j \/ watch[i] = Null
    /\ sock \in Conns \union {Null}
    /\ IsInjective(timers) /\ \A b \in Range(timers) : block[b] # Free
    /\ writer \in Threads \union {Null}
    /\ used.commands <= scenario.commands /\ used.events <= scenario.events

\* One client at a time: when E takes a connection from the listening socket,
\* s_fdCommand is closed (assert(s_fdCommand < 0)), in spite of the five places
\* that close it, watch it or listen again.
OneClient == At(E, "listen") => ~fdCommand

\* What loses the event loop for ever is one thing only, that another than
\* processCommandsCallback closed the socket it watches: blockingWrite, or the
\* debug client's "off".  No order of connections, hang-ups and refusals does.
LoopSurvives == ended => cut

\* While E is in select(), or about to be, with a set of descriptors or a timeout
\* that is out of date, a byte is in the wakeup pipe or on its way into it.
NoLostWakeup ==
    ((At(E, "enter") \/ At(E, "select"))
        /\ (~(Watched \subseteq sel.fds) \/ (timers # <<>> /\ ~sel.wait)))
    => (wake \/ At(V, "triggerEvLoop") \/ At(M, "triggerEvLoop"))

\* When the wake lock is held someone will give it back: a thread is still
\* between taking it and setting its timer, or a timer that is not cancelled is
\* in the list or being fired.  s_last_wake_timeout_info is read and written
\* without a mutex by E and V, and may point to memory that was freed and
\* allocated again.
Has(t, ops) == \E i \in DOMAIN work[t] : work[t][i].op \in ops
LockReleased ==
    lock => \/ dead
            \/ \E t \in Threads : Has(t, {"schedule", "timer", "releaseWakeLock"})
            \/ \E b \in Range(timers) : block[b] = "armed"
            \/ \E i \in DOMAIN work[E] : work[E][i].op = "userTimerCallback"
                                      /\ block[work[E][i].block] = "armed"

\* The frames of two threads are not mixed on one connection, whichever of them
\* write to it, fail and close it.  Nothing is said of a connection once it has got
\* the payload of a frame whose header went to the one before ("orphan"), which
\* happens: E closes the socket without s_writeMutex, and the number is used again.
FramesUnmixed == \A c \in Conns : stream[c] # "torn"

\* Once a client is connected, the requests on the list that are not marked are its
\* own: the end of the one before marked all that were there, "so we dont report
\* responses".  Only of those on the list: RIL_onRequestComplete takes a request off
\* before it looks at the mark, and what it then sends goes to whoever is connected.
PendingIsCurrent ==
    (fdCommand /\ sock # Null) =>
        \A r \in Requests : (request[r].pending /\ ~request[r].local /\ ~request[r].cancelled)
            => request[r].conn = sock

\* The daemon serves one client at a time, does not mix two frames on its connection,
\* and has only its requests on the list.  A new client may still get the answer of
\* the one before, whole or its second half: see FramesUnmixed and PendingIsCurrent.
OneClientServed == TypeOK /\ OneClient /\ FramesUnmixed /\ PendingIsCurrent

\* A client that connects is taken from the listening socket, unless another one
\* stays connected or the event loop is lost: whatever fails, is refused or hangs
\* up, the loop listens again.
ClientServed ==
    (backlog # <<>>) ~>
        (backlog = <<>> \/ ended \/ dead \/ (sock # Null /\ client[sock] = "open"))

=============================================================================
