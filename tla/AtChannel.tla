----------------------------- MODULE AtChannel ------------------------------
(***************************************************************************)
(* The AT channel between reference-ril and the modem (atchannel.c), with  *)
(* the loop that opens it again (mainLoop in reference-ril.c).             *)
(*                                                                         *)
(* Three threads share it.  The command thread (libril's event loop) sends *)
(* one command at a time and waits on s_commandcond; the reader takes the  *)
(* lines of the modem and hands each to the pending command or to the      *)
(* handler of unsolicited lines; the main thread opens the channel.        *)
(* A critical section of s_commandmutex is one step; the command thread    *)
(* keeps the mutex from step to step only during at_handshake.             *)
(***************************************************************************)
EXTENDS Naturals, Sequences

CONSTANTS
    NoLine,          \* a null pointer to a line, and to a response
    Requests,        \* the commands a request issues: sequences of types
    InitCommands,    \* the same, for initializeCallback after its handshake
    MayTimeOut,      \* an attempt of the handshake may take over 250 ms
    AnswersInPause,  \* every answer arrives within the pause after a handshake
    MayCut,          \* the channel may close in the middle of a line
    RetryCount,      \* HANDSHAKE_RETRY_COUNT, 8 in the code
    MaxSessions, MaxCommands, MaxUnsolicited     \* bounds

Types == {"NO_RESULT", "NUMERIC", "SINGLELINE", "MULTILINE", "SMS"}

ASSUME AtAssumption ==
    /\ \A c \in Requests \cup InitCommands : c \in Seq(Types) /\ c # <<>>
    /\ MayTimeOut \in BOOLEAN /\ MayCut \in BOOLEAN /\ AnswersInPause \in BOOLEAN
    /\ RetryCount \in Nat \ {0}
    /\ MaxSessions \in Nat /\ MaxCommands \in Nat /\ MaxUnsolicited \in Nat

\* A line by what processLine tells apart, and the command it answers (0 if
\* none).  "sms" is the first of the two lines of +CMT and the like.
Line == [kind : {"final", "prompt", "digits", "prefix", "other", "sms"}, cmd : Nat]
line(kind, id) == [kind |-> kind, cmd |-> id]

\* sp_response, with s_type, s_responsePrefix and s_smsPDU, which are set and
\* cleared with it.
Response == [id : Nat, type : Types, pdu : BOOLEAN, inter : Seq(Line),
             final : Line \cup {NoLine}]

ASSUME LineAssumption == NoLine \notin Line \cup Response

VARIABLES
    s_fd,            \* the session the descriptor belongs to; 0 is -1
    s_readerClosed, s_closed,
    sp_response,
    signalled,       \* the waiter on s_commandcond was signalled
    cmd, job, tries, \* the command thread: where it is, the commands it has
                     \* still to send, the attempt of a handshake (0: none)
    callbacks,       \* initializeCallbacks the event loop has still to run
    available,       \* sState is not RADIO_STATE_UNAVAILABLE
    reader, held,    \* the reader: where it is, the line it has read
    leftover,        \* the line without its end in s_ATBuffer
    oldReaders,      \* readers with only setRadioState left to call
    main, stores,    \* the main thread, and the stores at_open has left
    session,         \* how often the channel was opened
    toModem, answer, wire, hup,   \* the modem: commands it has to read, lines
                     \* it will send, lines it has sent; it has closed
    sent, unsolicited,            \* how many commands and unsolicited lines
    stray            \* history: lines of a given-up command may still arrive

modem == <<toModem, answer, wire, hup>>
history == <<sent, unsolicited, stray>>
command == <<cmd, job, tries, callbacks>>
readers == <<reader, held, leftover, oldReaders>>
opening == <<main, stores, session>>
vars == <<s_fd, s_readerClosed, s_closed, sp_response, signalled, command,
          available, readers, opening, modem, history>>

Init ==
    /\ s_fd = 0 /\ s_readerClosed = FALSE /\ s_closed = FALSE
    /\ sp_response = NoLine /\ signalled = FALSE
    /\ cmd = "idle" /\ job = <<>> /\ tries = 0 /\ callbacks = 0
    /\ available = FALSE
    /\ reader = "none" /\ held = NoLine /\ leftover = NoLine /\ oldReaders = 0
    /\ main = "open" /\ stores = {} /\ session = 0
    /\ toModem = <<>> /\ answer = <<>> /\ wire = <<>> /\ hup = FALSE
    /\ sent = 0 /\ unsolicited = 0 /\ stray = FALSE

Waiting == cmd = "wait"

\* s_commandmutex is held from the first attempt of a handshake to the end of
\* its pause, except in the waits.
MutexFree == ~(cmd = "drain" \/ (cmd = "send" /\ tries > 1))

-----------------------------------------------------------------------------
(* The main thread: mainLoop and at_open.                                  *)

\* A new channel and a new descriptor: what the old one still held is gone.
OpenChannel ==
    /\ main = "open" /\ session < MaxSessions
    /\ session' = session + 1 /\ s_closed' = FALSE
    /\ s_fd' = session + 1
    /\ toModem' = <<>> /\ answer' = <<>> /\ wire' = <<>> /\ hup' = FALSE
    /\ main' = "at_open" /\ stores' = {"s_readerClosed", "sp_response"}
    /\ UNCHANGED <<s_readerClosed, sp_response, signalled, command, available,
                   readers, history>>

\* at_open does not take the mutex: its stores race with the command thread and
\* may become visible in any order.
StoreReaderClosed ==
    /\ "s_readerClosed" \in stores
    /\ s_readerClosed' = FALSE /\ stores' = stores \ {"s_readerClosed"}
    /\ UNCHANGED <<s_fd, s_closed, sp_response, signalled, command, available,
                   readers, main, session, modem, history>>

StoreResponse ==
    /\ "sp_response" \in stores
    /\ sp_response' = NoLine /\ stores' = stores \ {"sp_response"}
    /\ UNCHANGED <<s_fd, s_readerClosed, s_closed, signalled, command, available,
                   readers, main, session, modem, history>>

StartReader ==
    /\ main = "at_open" /\ stores = {}
    /\ reader' = "read" /\ callbacks' = callbacks + 1 /\ main' = "wait"
    /\ UNCHANGED <<s_fd, s_readerClosed, s_closed, sp_response, signalled, cmd, job,
                   tries, available, held, leftover, oldReaders, stores, session,
                   modem, history>>

waitForClose ==
    /\ main = "wait" /\ s_closed
    /\ main' = "open"
    /\ UNCHANGED <<s_fd, s_readerClosed, s_closed, sp_response, signalled, command,
                   available, readers, stores, session, modem, history>>

-----------------------------------------------------------------------------
(* The command thread.                                                     *)

\* initializeCallback: the radio is off, then a handshake.
initializeCallback ==
    /\ cmd = "idle" /\ callbacks > 0
    /\ callbacks' = callbacks - 1
    /\ available' = ~s_closed
    /\ tries' = 1 /\ cmd' = "send" /\ job' \in InitCommands
    /\ UNCHANGED <<s_fd, s_readerClosed, s_closed, sp_response, signalled, readers,
                   opening, modem, history>>

onRequest ==
    /\ cmd = "idle" /\ available
    /\ cmd' = "send" /\ job' \in Requests
    /\ UNCHANGED <<s_fd, s_readerClosed, s_closed, sp_response, signalled, tries,
                   callbacks, available, readers, opening, modem, history>>

\* at_send_command_full_nolock returns to at_handshake, which tries again, gives
\* up or pauses, or to a handler, which goes on to its next command.
NextCommand(rest) == job' = rest /\ cmd' = IF rest = <<>> THEN "idle" ELSE "send"

Returns(failed) ==
    \/ tries = 0 /\ NextCommand(Tail(job)) /\ UNCHANGED tries
    \/ tries > 0 /\ ~failed /\ cmd' = "drain" /\ UNCHANGED <<job, tries>>
    \/ tries > 0 /\ failed /\ tries < RetryCount
       /\ tries' = tries + 1 /\ cmd' = "send" /\ UNCHANGED job
    \/ tries = RetryCount /\ failed /\ tries' = 0 /\ NextCommand(job)

\* The write fails, or a command is pending: its response is dropped.
SendFails ==
    /\ cmd = "send"
    /\ sp_response # NoLine \/ s_fd = 0 \/ s_readerClosed \/ hup
    /\ sp_response' = NoLine
    /\ Returns(TRUE)
    /\ UNCHANGED <<s_fd, s_readerClosed, s_closed, signalled, callbacks, available,
                   readers, opening, modem, history>>

type == IF tries > 0 THEN "NO_RESULT" ELSE Head(job)

Send ==
    /\ cmd = "send" /\ sent < MaxCommands
    /\ sp_response = NoLine /\ s_fd # 0 /\ ~s_readerClosed
    /\ sent' = sent + 1
    /\ toModem' = IF hup THEN toModem ELSE Append(toModem, [id |-> sent + 1, type |-> type])
    /\ sp_response' = [id |-> sent + 1, type |-> type, pdu |-> type = "SMS",
                       inter |-> <<>>, final |-> NoLine]
    /\ cmd' = "wait" /\ signalled' = FALSE
    /\ UNCHANGED <<s_fd, s_readerClosed, s_closed, job, tries, callbacks, available,
                   readers, opening, answer, wire, hup, unsolicited, stray>>

\* The waiter wakes up and looks at its response, which at_open may have
\* cleared: the process ends in a null pointer.
WakesToNull ==
    /\ Waiting /\ signalled /\ sp_response = NoLine
    /\ cmd' = "crashed"
    /\ UNCHANGED <<s_fd, s_readerClosed, s_closed, sp_response, signalled, job, tries,
                   callbacks, available, readers, opening, modem, history>>

\* Mutant: the response stays the pending one.
Wakes_KeepsResponse ==
    /\ Waiting /\ signalled /\ sp_response # NoLine
    /\ signalled' = FALSE
    /\ IF sp_response.final = NoLine /\ ~s_readerClosed
       THEN UNCHANGED <<sp_response, cmd, job, tries>>
       ELSE sp_response' = sp_response /\ Returns(s_readerClosed)
    /\ UNCHANGED <<s_fd, s_readerClosed, s_closed, callbacks, available, readers,
                   opening, modem, history>>

Wakes ==
    /\ Waiting /\ signalled /\ sp_response # NoLine
    /\ signalled' = FALSE
    /\ IF sp_response.final = NoLine /\ ~s_readerClosed
       THEN UNCHANGED <<sp_response, cmd, job, tries>>
       ELSE sp_response' = NoLine /\ Returns(s_readerClosed)
    /\ UNCHANGED <<s_fd, s_readerClosed, s_closed, callbacks, available, readers,
                   opening, modem, history>>

\* Only the handshake waits with a time-out; the answer may have come meanwhile.
TimesOut ==
    /\ Waiting /\ tries > 0 /\ MayTimeOut
    /\ sp_response' = NoLine /\ stray' = TRUE
    /\ Returns(TRUE)
    /\ UNCHANGED <<s_fd, s_readerClosed, s_closed, signalled, callbacks, available,
                   readers, opening, modem, sent, unsolicited>>

\* The pause after the handshake, with the mutex held.
Pause ==
    /\ cmd = "drain"
    /\ AnswersInPause => toModem = <<>> /\ answer = <<>>
    /\ tries' = 0 /\ NextCommand(job)
    /\ UNCHANGED <<s_fd, s_readerClosed, s_closed, sp_response, signalled, callbacks,
                   available, readers, opening, modem, history>>

-----------------------------------------------------------------------------
(* The reader: readerLoop, processLine, onReaderClosed.                    *)

\* The first bytes of a session end the line the last one left in the buffer.
readline ==
    /\ reader = "read" /\ wire # <<>>
    /\ LET next == IF leftover # NoLine THEN leftover ELSE Head(wire)
       IN  /\ held' = next
           /\ reader' = IF next.kind = "sms" THEN "second" ELSE "line"
    /\ leftover' = NoLine
    /\ wire' = IF leftover # NoLine THEN wire ELSE Tail(wire)
    /\ UNCHANGED <<s_fd, s_readerClosed, s_closed, sp_response, signalled, command,
                   available, oldReaders, opening, toModem, answer, hup, history>>

\* The second line of an SMS goes to the handler with the first.
SecondLine ==
    /\ reader = "second" /\ wire # <<>>
    /\ wire' = Tail(wire) /\ held' = NoLine /\ reader' = "read"
    /\ UNCHANGED <<s_fd, s_readerClosed, s_closed, sp_response, signalled, command,
                   available, leftover, oldReaders, opening, toModem, answer, hup,
                   history>>

EndOfFile ==
    /\ reader \in {"read", "second"} /\ wire = <<>> /\ hup
    /\ reader' = "closed" /\ held' = NoLine
    /\ UNCHANGED <<s_fd, s_readerClosed, s_closed, sp_response, signalled, command,
                   available, leftover, oldReaders, opening, modem, history>>

IsIntermediate(r, l) ==
    \/ l.kind = "digits" /\ r.type = "NUMERIC" /\ r.inter = <<>>
    \/ l.kind = "prefix" /\ r.type \in {"SINGLELINE", "SMS"} /\ r.inter = <<>>
    \/ l.kind = "prefix" /\ r.type = "MULTILINE"

\* Mutant: nobody is told of the final line.
handleFinalResponse_Silent(l) ==
    /\ sp_response' = [sp_response EXCEPT !.final = l]
    /\ UNCHANGED <<signalled, toModem>>

handleFinalResponse(l) ==
    /\ sp_response' = [sp_response EXCEPT !.final = l]
    /\ signalled' = Waiting
    /\ UNCHANGED toModem

writeCtrlZ ==
    /\ sp_response' = [sp_response EXCEPT !.pdu = FALSE]
    /\ toModem' = IF hup THEN toModem
                  ELSE Append(toModem, [id |-> sp_response.id, type |-> "SMS PDU"])
    /\ UNCHANGED signalled

\* Mutant: the one line of a command is taken for its end.
addIntermediate_Completes(l) ==
    /\ sp_response' = [sp_response EXCEPT !.inter = Append(@, l), !.final = l]
    /\ signalled' = Waiting
    /\ UNCHANGED toModem

addIntermediate(l) ==
    /\ sp_response' = [sp_response EXCEPT !.inter = Append(@, l)]
    /\ UNCHANGED <<signalled, toModem>>

handleUnsolicited == UNCHANGED <<sp_response, signalled, toModem>>

processLine ==
    /\ reader = "line" /\ MutexFree
    /\ reader' = "read" /\ held' = NoLine
    /\ IF sp_response = NoLine THEN handleUnsolicited
       ELSE IF held.kind = "final" THEN handleFinalResponse(held)
       ELSE IF held.kind = "prompt" /\ sp_response.pdu THEN writeCtrlZ
       ELSE IF IsIntermediate(sp_response, held) THEN addIntermediate(held)
       ELSE handleUnsolicited
    /\ UNCHANGED <<s_fd, s_readerClosed, s_closed, command, available, leftover,
                   oldReaders, opening, answer, wire, hup, history>>

onReaderClosed ==
    /\ reader = "closed" /\ MutexFree
    /\ s_readerClosed' = TRUE
    /\ signalled' = (signalled \/ Waiting)
    /\ reader' = "at_close"
    /\ UNCHANGED <<s_fd, s_closed, sp_response, command, available, held, leftover,
                   oldReaders, opening, modem, history>>

\* onATReaderClosed: at_close, then the main thread may go on.
at_close ==
    /\ reader = "at_close" /\ MutexFree
    /\ s_fd' = 0 /\ s_readerClosed' = TRUE
    /\ signalled' = (signalled \/ Waiting)
    /\ reader' = "onATReaderClosed"
    /\ UNCHANGED <<s_closed, sp_response, command, available, held, leftover,
                   oldReaders, opening, modem, history>>

\* Mutant: the main thread is not told.
onATReaderClosed_Forgets ==
    /\ reader = "onATReaderClosed"
    /\ reader' = "none" /\ oldReaders' = oldReaders + 1
    /\ UNCHANGED <<s_fd, s_readerClosed, s_closed, sp_response, signalled, command,
                   available, held, leftover, opening, modem, history>>

onATReaderClosed ==
    /\ reader = "onATReaderClosed"
    /\ s_closed' = TRUE
    /\ reader' = "none" /\ oldReaders' = oldReaders + 1
    /\ UNCHANGED <<s_fd, s_readerClosed, sp_response, signalled, command,
                   available, held, leftover, opening, modem, history>>

\* setRadioState(RADIO_STATE_UNAVAILABLE), the last thing a reader does.
SetUnavailable ==
    /\ oldReaders > 0
    /\ oldReaders' = oldReaders - 1 /\ available' = FALSE
    /\ UNCHANGED <<s_fd, s_readerClosed, s_closed, sp_response, signalled, command,
                   reader, held, leftover, opening, modem, history>>

-----------------------------------------------------------------------------
(* The modem (external): it answers commands in order, says things of its  *)
(* own and may go away.                                                    *)

Answers(c) ==
    CASE c.type = "NO_RESULT" -> {<<"final">>}
      [] c.type = "NUMERIC" -> {<<"digits", "final">>, <<"final">>}
      [] c.type = "SINGLELINE" -> {<<"prefix", "final">>, <<"final">>}
      [] c.type = "MULTILINE" -> {<<"prefix", "prefix", "final">>, <<"final">>}
      [] c.type = "SMS" -> {<<"prompt">>, <<"final">>}
      [] c.type = "SMS PDU" -> {<<"prefix", "final">>, <<"final">>}

ModemAnswers ==
    /\ ~hup /\ answer = <<>> /\ toModem # <<>>
    /\ \E kinds \in Answers(Head(toModem)) :
          answer' = [i \in DOMAIN kinds |-> line(kinds[i], Head(toModem).id)]
    /\ toModem' = Tail(toModem)
    /\ UNCHANGED <<s_fd, s_readerClosed, s_closed, sp_response, signalled, command,
                   available, readers, opening, wire, hup, history>>

ModemSends ==
    /\ ~hup /\ answer # <<>>
    /\ wire' = Append(wire, Head(answer)) /\ answer' = Tail(answer)
    /\ UNCHANGED <<s_fd, s_readerClosed, s_closed, sp_response, signalled, command,
                   available, readers, opening, toModem, hup, history>>

Unsolicited ==
    /\ session > 0 /\ ~hup /\ unsolicited < MaxUnsolicited
    /\ unsolicited' = unsolicited + 1
    /\ wire' \in {wire \o <<line("other", 0)>>, wire \o <<line("prefix", 0)>>,
                  wire \o <<line("sms", 0), line("other", 0)>>}
    /\ UNCHANGED <<s_fd, s_readerClosed, s_closed, sp_response, signalled, command,
                   available, readers, opening, toModem, answer, hup, sent, stray>>

\* The channel closes, maybe in the middle of the line it sends last.
HangUp ==
    /\ session > 0 /\ ~hup /\ s_fd = session
    /\ hup' = TRUE /\ toModem' = <<>> /\ answer' = <<>>
    /\ \/ UNCHANGED <<wire, leftover, stray>>
       \/ /\ MayCut /\ wire # <<>>
          /\ leftover' = wire[Len(wire)] /\ wire' = SubSeq(wire, 1, Len(wire) - 1)
          /\ stray' = (stray \/ wire[Len(wire)].cmd # 0)
    /\ UNCHANGED <<s_fd, s_readerClosed, s_closed, sp_response, signalled, command,
                   available, reader, held, oldReaders, opening, sent, unsolicited>>

-----------------------------------------------------------------------------

MainNext == OpenChannel \/ StoreReaderClosed \/ StoreResponse \/ StartReader \/ waitForClose
CommandNext == SendFails \/ Send \/ WakesToNull \/ Wakes \/ TimesOut \/ Pause
ReaderNext == readline \/ SecondLine \/ EndOfFile \/ processLine
              \/ onReaderClosed \/ at_close \/ onATReaderClosed
ModemNext == ModemAnswers \/ ModemSends

Next ==
    /\ cmd # "crashed"
    /\ \/ MainNext \/ CommandNext \/ initializeCallback \/ onRequest
       \/ ReaderNext \/ SetUnavailable \/ ModemNext \/ Unsolicited \/ HangUp

Spec == Init /\ [][Next]_vars

\* Every thread is scheduled and the modem answers what it reads; nothing is
\* assumed of requests, of unsolicited lines or of the end of the channel.
FairSpec ==
    /\ Spec
    /\ WF_vars(cmd # "crashed" /\ MainNext) /\ WF_vars(cmd # "crashed" /\ CommandNext)
    /\ WF_vars(cmd # "crashed" /\ initializeCallback)
    /\ WF_vars(cmd # "crashed" /\ ReaderNext) /\ WF_vars(cmd # "crashed" /\ ModemNext)

-----------------------------------------------------------------------------

\* The type of every variable.
TypeOK ==
    /\ s_fd \in Nat /\ session \in Nat
    /\ s_readerClosed \in BOOLEAN /\ s_closed \in BOOLEAN /\ signalled \in BOOLEAN
    /\ sp_response \in Response \cup {NoLine}
    /\ cmd \in {"idle", "send", "wait", "drain", "crashed"}
    /\ job \in Seq(Types) /\ tries \in 0 .. RetryCount /\ callbacks \in Nat
    /\ available \in BOOLEAN
    /\ reader \in {"none", "read", "line", "second", "closed", "at_close",
                   "onATReaderClosed"}
    /\ held \in Line \cup {NoLine} /\ leftover \in Line \cup {NoLine}
    /\ oldReaders \in Nat
    /\ main \in {"open", "at_open", "wait"}
    /\ stores \subseteq {"s_readerClosed", "sp_response"}
    /\ toModem \in Seq([id : Nat, type : Types \cup {"SMS PDU"}])
    /\ answer \in Seq(Line) /\ wire \in Seq(Line) /\ hup \in BOOLEAN
    /\ sent \in Nat /\ unsolicited \in Nat /\ stray \in BOOLEAN

\* While a response is pending its command is waiting for it: nothing is
\* recorded for a caller that has gone, and no caller has two responses.
ResponseHasWaiter == sp_response # NoLine => Waiting /\ sp_response.id = sent

\* A line that answers one command is never recorded for another, unless an
\* attempt of the handshake was given up or a line was cut off.
OwnAnswer ==
    sp_response # NoLine /\ ~stray =>
        /\ sp_response.final # NoLine => sp_response.final.cmd = sp_response.id
        /\ \A i \in DOMAIN sp_response.inter :
              sp_response.inter[i].cmd \in {sp_response.id, 0}

\* A command that waits comes to an end: by its answer, by the end of the
\* channel, or because at_open took its response away.
CommandEnds ==
    Waiting ~> ~Waiting \/ sp_response = NoLine

\* The end of the channel leads the main thread to open it again, whatever the
\* command thread does meanwhile.
HangUpReopens == hup ~> main = "open" \/ cmd = "crashed"

\* "these are protected by s_commandmutex" (atchannel.c): the response of a
\* waiting command does not go away.
NoNullResponse == cmd # "crashed"

=============================================================================
