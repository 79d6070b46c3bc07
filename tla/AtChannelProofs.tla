-------------------------- MODULE AtChannelProofs ---------------------------
(***************************************************************************)
(* The AT channel, for any requests, number of sessions and behaviour of   *)
(* the modem: types, that a pending response always has its waiter, and    *)
(* that a line is recorded for the command it answers.                     *)
(***************************************************************************)
EXTENDS AtChannel, SequenceTheorems, TLAPS

ToModem == [id : Nat, type : Types \cup {"SMS PDU"}]

\* The types, by the part of the state they are about.
CommandType ==
    /\ cmd \in {"idle", "send", "wait", "drain", "crashed"}
    /\ job \in Seq(Types) /\ tries \in 0 .. RetryCount /\ callbacks \in Nat
ResponseType == sp_response \in Response \cup {NoLine} /\ sent \in Nat
LinesType ==
    /\ held \in Line \cup {NoLine} /\ leftover \in Line \cup {NoLine}
    /\ answer \in Seq(Line) /\ wire \in Seq(Line)
ModemType == toModem \in Seq(ToModem)
FlagsType ==
    /\ s_readerClosed \in BOOLEAN /\ s_closed \in BOOLEAN /\ signalled \in BOOLEAN
    /\ available \in BOOLEAN /\ hup \in BOOLEAN /\ stray \in BOOLEAN
CountersType ==
    s_fd \in Nat /\ session \in Nat /\ oldReaders \in Nat /\ unsolicited \in Nat
PlacesType ==
    /\ reader \in {"none", "read", "line", "second", "closed", "at_close",
                   "onATReaderClosed"}
    /\ main \in {"open", "at_open", "wait"}
    /\ stores \subseteq {"s_readerClosed", "sp_response"}

LEMMA TypeParts ==
    TypeOK <=> /\ CommandType /\ ResponseType /\ LinesType /\ ModemType
               /\ FlagsType /\ CountersType /\ PlacesType
  BY DEF TypeOK, CommandType, ResponseType, LinesType, ModemType, FlagsType,
         CountersType, PlacesType, ToModem

\* A command that is being sent or waits is one of a job.  The reader holds a
\* line while it has one to process.
Working == cmd \in {"send", "wait", "drain"} => job # <<>>
Holding == reader = "line" => held # NoLine

Inv == /\ CommandType /\ ResponseType /\ LinesType /\ ModemType
       /\ FlagsType /\ CountersType /\ PlacesType
       /\ ResponseHasWaiter /\ Working /\ Holding

LEMMA NextCommandType ==
    ASSUME NEW rest \in Seq(Types), NextCommand(rest)
    PROVE  /\ job' \in Seq(Types) /\ cmd' \in {"idle", "send"}
           /\ cmd' = "send" => job' # <<>>
  BY DEF NextCommand

\* Where a command leaves the command thread when it returns.
LEMMA ReturnsType ==
    ASSUME CommandType, job # <<>>, NEW failed, Returns(failed), callbacks' = callbacks
    PROVE  CommandType' /\ Working' /\ cmd' # "wait"
<1>1. /\ job \in Seq(Types) /\ Tail(job) \in Seq(Types)
      /\ tries \in 0 .. RetryCount /\ callbacks' \in Nat
  BY DEF CommandType
<1>2. RetryCount \in Nat \ {0}
  BY AtAssumption
<1>3. CASE tries = 0 /\ NextCommand(Tail(job)) /\ UNCHANGED tries
  BY <1>1, <1>3, NextCommandType DEF CommandType, Working
<1>4. CASE tries > 0 /\ ~failed /\ cmd' = "drain" /\ UNCHANGED <<job, tries>>
  BY <1>1, <1>4 DEF CommandType, Working
<1>5. CASE /\ tries > 0 /\ failed /\ tries < RetryCount
           /\ tries' = tries + 1 /\ cmd' = "send" /\ UNCHANGED job
  <2>1. tries' \in 0 .. RetryCount
    BY <1>1, <1>2, <1>5
  <2>2. QED BY <1>1, <1>5, <2>1 DEF CommandType, Working
<1>6. CASE tries = RetryCount /\ failed /\ tries' = 0 /\ NextCommand(job)
  <2>1. tries' \in 0 .. RetryCount
    BY <1>2, <1>6
  <2>2. job' \in Seq(Types) /\ cmd' \in {"idle", "send"} /\ (cmd' = "send" => job' # <<>>)
    BY <1>1, <1>6, NextCommandType
  <2>3. QED BY <1>1, <2>1, <2>2 DEF CommandType, Working
<1>7. QED BY <1>3, <1>4, <1>5, <1>6 DEF Returns

-----------------------------------------------------------------------------
(* The invariant, thread by thread.                                        *)

LEMMA InitInv == Init => Inv
<1> SUFFICES ASSUME Init PROVE Inv
  OBVIOUS
<1>1. CommandType /\ Working
  BY AtAssumption DEF Init, CommandType, Working
<1>2. ResponseType /\ ResponseHasWaiter
  BY DEF Init, ResponseType, ResponseHasWaiter
<1>3. LinesType /\ ModemType /\ Holding
  BY DEF Init, LinesType, ModemType, Holding
<1>4. FlagsType /\ CountersType /\ PlacesType
  BY DEF Init, FlagsType, CountersType, PlacesType
<1>5. QED BY <1>1, <1>2, <1>3, <1>4 DEF Inv

LEMMA MainInv == ASSUME Inv, MainNext PROVE Inv'
<1>1. CommandType' /\ Working'
  BY DEF Inv, MainNext, OpenChannel, StoreReaderClosed, StoreResponse, StartReader,
         waitForClose, CommandType, Working, command
<1>2. ResponseType' /\ ResponseHasWaiter'
  BY DEF Inv, MainNext, OpenChannel, StoreReaderClosed, StoreResponse, StartReader,
         waitForClose, ResponseType, ResponseHasWaiter, Waiting, command, history
<1>3. LinesType' /\ ModemType' /\ Holding'
  <2>1. CASE OpenChannel
    <3>1. <<>> \in Seq(Line) /\ <<>> \in Seq(ToModem)
      OBVIOUS
    <3>2. QED BY <2>1, <3>1 DEF Inv, OpenChannel, LinesType, ModemType, Holding, readers
  <2>2. CASE StoreReaderClosed \/ StoreResponse \/ StartReader \/ waitForClose
    BY <2>2 DEF Inv, StoreReaderClosed, StoreResponse, StartReader, waitForClose,
                LinesType, ModemType, Holding, readers, modem
  <2>3. QED BY <2>1, <2>2 DEF MainNext
<1>4. FlagsType' /\ CountersType' /\ PlacesType'
  <2>1. CASE OpenChannel
    <3>1. FlagsType'
      BY <2>1, Zenon DEF Inv, OpenChannel, FlagsType, history
    <3>2. CountersType'
      BY <2>1 DEF Inv, OpenChannel, CountersType, readers, history
    <3>3. PlacesType'
      BY <2>1 DEF Inv, OpenChannel, PlacesType, readers
    <3>4. QED BY <3>1, <3>3, <3>2
  <2>2. CASE StoreReaderClosed \/ StoreResponse
    <3>1. FlagsType'
      BY <2>2, Zenon DEF Inv, StoreReaderClosed, StoreResponse, FlagsType, modem, history
    <3>2. CountersType' /\ PlacesType'
      BY <2>2 DEF Inv, StoreReaderClosed, StoreResponse, CountersType, PlacesType,
                  readers, history
    <3>3. QED BY <3>1, <3>2
  <2>3. CASE StartReader \/ waitForClose
    BY <2>3 DEF Inv, StartReader, waitForClose, FlagsType, CountersType, PlacesType,
                readers, modem, history
  <2>4. QED BY <2>1, <2>2, <2>3 DEF MainNext
<1>5. QED BY <1>1, <1>2, <1>3, <1>4 DEF Inv

\* The command thread touches neither the reader nor the main thread.
Elsewhere == UNCHANGED <<s_fd, s_readerClosed, s_closed, readers, opening, answer, wire,
                         hup, unsolicited>>

LEMMA ElsewhereInv ==
    ASSUME Inv, Elsewhere, signalled' \in BOOLEAN, available' \in BOOLEAN, stray' \in BOOLEAN
    PROVE  LinesType' /\ FlagsType' /\ CountersType' /\ PlacesType' /\ Holding'
  BY DEF Inv, Elsewhere, LinesType, FlagsType, CountersType, PlacesType, Holding, readers,
         opening

LEMMA JobInv == ASSUME Inv, initializeCallback \/ onRequest PROVE Inv'
<1>1. PICK c \in Requests \cup InitCommands : job' = c
  BY DEF initializeCallback, onRequest
<1>2. job' \in Seq(Types) /\ job' # <<>>
  BY <1>1, AtAssumption
<1>3. cmd = "idle" /\ cmd' = "send" /\ tries' \in 0 .. RetryCount /\ callbacks' \in Nat
  BY AtAssumption DEF Inv, CommandType, initializeCallback, onRequest
<1>4. CommandType' /\ Working'
  BY <1>2, <1>3 DEF CommandType, Working
<1>5. ResponseType' /\ ResponseHasWaiter' /\ ModemType'
  BY <1>3 DEF Inv, ResponseType, ResponseHasWaiter, Waiting, ModemType, initializeCallback,
              onRequest, modem, history
<1>6. Elsewhere /\ signalled' \in BOOLEAN /\ available' \in BOOLEAN /\ stray' \in BOOLEAN
  BY DEF Inv, FlagsType, Elsewhere, initializeCallback, onRequest, modem, history
<1>7. QED BY <1>4, <1>5, <1>6, ElsewhereInv DEF Inv

LEMMA CommandInv == ASSUME Inv, CommandNext PROVE Inv'
<1>1. CASE SendFails \/ TimesOut
  <2>1. job # <<>> /\ CommandType /\ (\E failed : Returns(failed)) /\ callbacks' = callbacks
    BY <1>1 DEF Inv, Working, Waiting, SendFails, TimesOut
  <2>2. CommandType' /\ Working'
    BY <2>1, ReturnsType
  <2>3. ResponseType' /\ ResponseHasWaiter' /\ ModemType'
    BY <1>1 DEF Inv, ResponseType, ResponseHasWaiter, ModemType, SendFails, TimesOut, modem,
                history
  <2>4. Elsewhere /\ signalled' \in BOOLEAN /\ available' \in BOOLEAN /\ stray' \in BOOLEAN
    BY <1>1 DEF Inv, FlagsType, Elsewhere, SendFails, TimesOut, modem, history
  <2>5. QED BY <2>2, <2>3, <2>4, ElsewhereInv DEF Inv
<1>2. CASE Send
  <2>1. type \in Types
    BY <1>2 DEF Inv, CommandType, Working, Send, type, Types
  <2>2. sent' \in Nat /\ sent' = sent + 1
    BY <1>2 DEF Inv, ResponseType, Send
  <2>3. sp_response' = [id |-> sent', type |-> type, pdu |-> type = "SMS", inter |-> <<>>,
                        final |-> NoLine]
    BY <1>2, <2>2 DEF Send
  <2>4. sp_response' \in Response /\ sp_response'.id = sent'
    <3>1. <<>> \in Seq(Line) /\ (type = "SMS") \in BOOLEAN /\ NoLine \in Line \cup {NoLine}
      OBVIOUS
    <3>2. QED BY <2>1, <2>2, <2>3, <3>1 DEF Response
  <2>5. ResponseType' /\ ResponseHasWaiter'
    BY <1>2, <2>2, <2>4 DEF ResponseType, ResponseHasWaiter, Waiting, Send
  <2>6. ModemType'
    <3>1. [id |-> sent + 1, type |-> type] \in ToModem
      BY <2>1, <2>2 DEF ToModem
    <3>2. QED BY <1>2, <3>1 DEF Inv, ModemType, Send
  <2>7. CommandType' /\ Working'
    BY <1>2 DEF Inv, CommandType, Working, Send
  <2>8. Elsewhere /\ signalled' \in BOOLEAN /\ available' \in BOOLEAN /\ stray' \in BOOLEAN
    BY <1>2 DEF Inv, FlagsType, Elsewhere, Send
  <2>9. QED BY <2>5, <2>6, <2>7, <2>8, ElsewhereInv DEF Inv
<1>3. CASE WakesToNull
  <2>1. CommandType' /\ Working' /\ ResponseType' /\ ResponseHasWaiter' /\ ModemType'
    BY <1>3 DEF Inv, CommandType, Working, ResponseType, ResponseHasWaiter, Waiting, ModemType,
                WakesToNull, modem, history
  <2>2. Elsewhere /\ signalled' \in BOOLEAN /\ available' \in BOOLEAN /\ stray' \in BOOLEAN
    BY <1>3 DEF Inv, FlagsType, Elsewhere, WakesToNull, modem, history
  <2>3. QED BY <2>1, <2>2, ElsewhereInv DEF Inv
<1>4. CASE Wakes
  <2>1. job # <<>> /\ CommandType /\ Working /\ callbacks' = callbacks
    BY <1>4 DEF Inv, Working, Waiting, Wakes
  <2>2. CommandType' /\ Working' /\ (sp_response' = NoLine \/ UNCHANGED <<sp_response, cmd>>)
    <3>1. CASE UNCHANGED <<sp_response, cmd, job, tries>>
      BY <2>1, <3>1 DEF CommandType, Working
    <3>2. CASE sp_response' = NoLine /\ Returns(s_readerClosed)
      BY <2>1, <3>2, ReturnsType
    <3>3. QED BY <1>4, <3>1, <3>2 DEF Wakes
  <2>3. ResponseType' /\ ResponseHasWaiter' /\ ModemType'
    BY <1>4, <2>2 DEF Inv, ResponseType, ResponseHasWaiter, Waiting, ModemType, Wakes, modem,
                      history
  <2>4. Elsewhere /\ signalled' \in BOOLEAN /\ available' \in BOOLEAN /\ stray' \in BOOLEAN
    BY <1>4 DEF Inv, FlagsType, Elsewhere, Wakes, modem, history
  <2>5. QED BY <2>2, <2>3, <2>4, ElsewhereInv DEF Inv
<1>5. CASE Pause
  <2>1. job \in Seq(Types) /\ NextCommand(job) /\ tries' = 0 /\ callbacks' = callbacks
    BY <1>5 DEF Inv, CommandType, Pause
  <2>2. job' \in Seq(Types) /\ cmd' \in {"idle", "send"} /\ (cmd' = "send" => job' # <<>>)
    BY <2>1, NextCommandType
  <2>3. CommandType' /\ Working'
    BY <2>1, <2>2, AtAssumption DEF Inv, CommandType, Working
  <2>4. ResponseType' /\ ResponseHasWaiter' /\ ModemType'
    BY <1>5 DEF Inv, ResponseType, ResponseHasWaiter, Waiting, ModemType, Pause, modem, history
  <2>5. Elsewhere /\ signalled' \in BOOLEAN /\ available' \in BOOLEAN /\ stray' \in BOOLEAN
    BY <1>5 DEF Inv, FlagsType, Elsewhere, Pause, modem, history
  <2>6. QED BY <2>3, <2>4, <2>5, ElsewhereInv DEF Inv
<1>6. QED BY <1>1, <1>2, <1>3, <1>4, <1>5 DEF CommandNext

\* Nobody but the command thread moves the command, and a response stays the
\* response of its command when a line is added to it.
LEMMA ReaderInv == ASSUME Inv, ReaderNext PROVE Inv'
<1>1. CommandType' /\ Working'
  BY DEF Inv, ReaderNext, readline, SecondLine, EndOfFile, processLine, onReaderClosed,
         at_close, onATReaderClosed, CommandType, Working, command
<1>2. CASE readline \/ SecondLine \/ EndOfFile
  <2>1. ResponseType' /\ ResponseHasWaiter' /\ ModemType'
    BY <1>2 DEF Inv, readline, SecondLine, EndOfFile, ResponseType, ResponseHasWaiter,
                Waiting, ModemType, command, modem, history
  <2>2. LinesType' /\ Holding'
    <3>1. CASE readline
      <4>1. wire \in Seq(Line) /\ wire # <<>> /\ leftover \in Line \cup {NoLine}
        BY <3>1 DEF Inv, LinesType, readline
      <4>2. Head(wire) \in Line /\ Tail(wire) \in Seq(Line)
        BY <4>1
      <4>3. held' \in Line /\ leftover' = NoLine /\ wire' \in Seq(Line) /\ UNCHANGED answer
        BY <3>1, <4>1, <4>2 DEF readline
      <4>4. held' # NoLine
        BY <4>3, LineAssumption
      <4>5. QED BY <4>3, <4>4 DEF Inv, LinesType, Holding
    <3>2. CASE SecondLine
      <4>1. Tail(wire) \in Seq(Line)
        BY <3>2 DEF Inv, LinesType, SecondLine
      <4>2. QED BY <3>2, <4>1 DEF Inv, LinesType, Holding, SecondLine
    <3>3. CASE EndOfFile
      BY <3>3 DEF Inv, LinesType, Holding, EndOfFile, modem
    <3>4. QED BY <1>2, <3>1, <3>2, <3>3
  <2>3. FlagsType' /\ CountersType' /\ PlacesType'
    <3>1. CASE readline
      BY <3>1 DEF Inv, readline, FlagsType, CountersType, PlacesType, opening, history
    <3>2. CASE SecondLine \/ EndOfFile
      BY <3>2 DEF Inv, SecondLine, EndOfFile, FlagsType, CountersType, PlacesType,
                  opening, modem, history
    <3>3. QED BY <1>2, <3>1, <3>2
  <2>4. QED BY <1>1, <2>1, <2>2, <2>3 DEF Inv
<1>3. CASE processLine
  <2>1. held \in Line
    BY <1>3 DEF Inv, LinesType, Holding, processLine
  <2>2. ASSUME handleUnsolicited
        PROVE  ResponseType' /\ ResponseHasWaiter' /\ ModemType' /\ signalled' \in BOOLEAN
    BY <1>3, <2>2 DEF Inv, processLine, handleUnsolicited, ResponseType,
                      ResponseHasWaiter, Waiting, ModemType, FlagsType, command, history
  <2>3. ASSUME sp_response # NoLine,
               handleFinalResponse(held) \/ writeCtrlZ \/ addIntermediate(held)
        PROVE  ResponseType' /\ ResponseHasWaiter' /\ ModemType' /\ signalled' \in BOOLEAN
    <3>1. sp_response \in Response /\ sent \in Nat
      BY <2>3 DEF Inv, ResponseType
    <3>2. sp_response' \in Response /\ sp_response'.id = sp_response.id
      <4>1. CASE handleFinalResponse(held)
        BY <2>1, <3>1, <4>1 DEF handleFinalResponse, Response
      <4>2. CASE writeCtrlZ
        BY <3>1, <4>2 DEF writeCtrlZ, Response
      <4>3. CASE addIntermediate(held)
        <5>1. Append(sp_response.inter, held) \in Seq(Line)
          BY <2>1, <3>1 DEF Response
        <5>2. QED BY <3>1, <4>3, <5>1 DEF addIntermediate, Response
      <4>4. QED BY <2>3, <4>1, <4>2, <4>3
    <3>3. sp_response' # NoLine
      BY <3>2, LineAssumption
    <3>4. ResponseType' /\ ResponseHasWaiter'
      BY <1>3, <2>3, <3>1, <3>2 DEF Inv, processLine, ResponseType, ResponseHasWaiter,
                                    Waiting, command, history
    <3>5. ModemType'
      <4>1. CASE writeCtrlZ
        <5>1. [id |-> sp_response.id, type |-> "SMS PDU"] \in ToModem
          BY <3>1 DEF Response, ToModem
        <5>2. toModem \in Seq(ToModem)
          BY DEF Inv, ModemType
        <5>3. Append(toModem, [id |-> sp_response.id, type |-> "SMS PDU"]) \in Seq(ToModem)
          BY <5>1, <5>2, AppendProperties
        <5>4. QED BY <4>1, <5>2, <5>3 DEF ModemType, writeCtrlZ
      <4>2. CASE handleFinalResponse(held) \/ addIntermediate(held)
        BY <4>2 DEF Inv, ModemType, handleFinalResponse, addIntermediate
      <4>3. QED BY <2>3, <4>1, <4>2
    <3>6. signalled' \in BOOLEAN
      BY <2>3 DEF Inv, FlagsType, Waiting, handleFinalResponse, writeCtrlZ, addIntermediate
    <3>7. QED BY <3>4, <3>5, <3>6
  <2>4. ResponseType' /\ ResponseHasWaiter' /\ ModemType' /\ signalled' \in BOOLEAN
    BY <1>3, <2>2, <2>3 DEF processLine
  <2>5. LinesType' /\ Holding'
    BY <1>3 DEF Inv, processLine, LinesType, Holding
  <2>6. FlagsType'
    BY <1>3, <2>4 DEF Inv, processLine, FlagsType, history
  <2>7. CountersType' /\ PlacesType'
    BY <1>3 DEF Inv, processLine, CountersType, PlacesType, opening, history
  <2>8. QED BY <1>1, <2>4, <2>5, <2>6, <2>7 DEF Inv
<1>4. CASE onReaderClosed \/ at_close \/ onATReaderClosed
  <2>1. ResponseType' /\ ResponseHasWaiter' /\ ModemType' /\ LinesType' /\ Holding'
    BY <1>4 DEF Inv, onReaderClosed, at_close, onATReaderClosed, ResponseType,
                ResponseHasWaiter, Waiting, ModemType, LinesType, Holding, command,
                modem, history
  <2>2. FlagsType' /\ CountersType' /\ PlacesType'
    <3>1. FlagsType'
      BY <1>4, Zenon DEF Inv, onReaderClosed, at_close, onATReaderClosed, FlagsType,
                         Waiting, modem, history
    <3>2. CountersType' /\ PlacesType'
      <4>1. CASE onReaderClosed
        BY <4>1 DEF Inv, onReaderClosed, CountersType, PlacesType, opening, history
      <4>2. CASE at_close
        <5>1. s_fd' = 0 /\ reader' = "onATReaderClosed"
              /\ UNCHANGED <<oldReaders, session, unsolicited, main, stores>>
          BY <4>2 DEF at_close, opening, history
        <5>2. QED BY <5>1 DEF Inv, CountersType, PlacesType
      <4>3. CASE onATReaderClosed
        BY <4>3 DEF Inv, onATReaderClosed, CountersType, PlacesType, opening, history
      <4>4. QED BY <1>4, <4>1, <4>3, <4>2
    <3>3. QED BY <3>1, <3>2
  <2>3. QED BY <1>1, <2>1, <2>2 DEF Inv
<1>5. QED BY <1>2, <1>3, <1>4 DEF ReaderNext


\* A modem answers with lines of these kinds, whatever the command is.
LEMMA AnswerKinds ==
    ASSUME NEW c \in ToModem, NEW kinds \in Answers(c)
    PROVE  kinds \in Seq({"final", "prompt", "digits", "prefix"})
<1>1. c.type \in Types \cup {"SMS PDU"}
  BY DEF ToModem
<1>2. kinds \in {<<"final">>, <<"prompt">>, <<"digits", "final">>, <<"prefix", "final">>,
                 <<"prefix", "prefix", "final">>}
  BY <1>1 DEF Answers, Types
<1> DEFINE K == {"final", "prompt", "digits", "prefix"}
<1>3. "final" \in K /\ "prompt" \in K /\ "digits" \in K /\ "prefix" \in K
  OBVIOUS
<1> HIDE DEF K
<1>4. /\ <<"final">> \in Seq(K) /\ <<"prompt">> \in Seq(K) /\ <<"digits", "final">> \in Seq(K)
      /\ <<"prefix", "final">> \in Seq(K) /\ <<"prefix", "prefix", "final">> \in Seq(K)
  BY <1>3
<1>5. kinds \in Seq(K)
  BY <1>2, <1>4
<1>6. QED BY <1>5 DEF K

LEMMA ModemInv ==
    ASSUME Inv, ModemNext \/ SetUnavailable \/ Unsolicited \/ HangUp
    PROVE  Inv'
<1>1. CommandType' /\ Working'
  BY DEF Inv, ModemNext, ModemAnswers, ModemSends, SetUnavailable, Unsolicited, HangUp,
         CommandType, Working, command
<1>2. ResponseType' /\ ResponseHasWaiter'
  BY DEF Inv, ModemNext, ModemAnswers, ModemSends, SetUnavailable, Unsolicited, HangUp,
         ResponseType, ResponseHasWaiter, Waiting, command, history
<1>3. ModemType'
  <2>1. CASE ModemAnswers
    BY <2>1 DEF Inv, ModemType, ModemAnswers
  <2>2. CASE HangUp
    <3>1. <<>> \in Seq(ToModem)
      OBVIOUS
    <3>2. QED BY <2>2, <3>1 DEF ModemType, HangUp
  <2>3. CASE ModemSends \/ SetUnavailable \/ Unsolicited
    BY <2>3 DEF Inv, ModemType, ModemSends, SetUnavailable, Unsolicited, modem
  <2>4. QED BY <2>1, <2>2, <2>3 DEF ModemNext
<1>4. LinesType' /\ Holding'
  <2>1. CASE ModemAnswers
    <3>1. PICK kinds \in Answers(Head(toModem)) :
             answer' = [i \in DOMAIN kinds |-> line(kinds[i], Head(toModem).id)]
      BY <2>1 DEF ModemAnswers
    <3>2. Head(toModem) \in ToModem
      BY <2>1 DEF Inv, ModemType, ModemAnswers
    <3>3. kinds \in Seq({"final", "prompt", "digits", "prefix"})
      BY <3>1, <3>2, AnswerKinds
    <3>4. \A i \in DOMAIN kinds : line(kinds[i], Head(toModem).id) \in Line
      <4>1. Head(toModem).id \in Nat
        BY <3>2 DEF ToModem
      <4>2. \A i \in DOMAIN kinds : kinds[i] \in {"final", "prompt", "digits", "prefix"}
        BY <3>3
      <4>3. QED BY <4>1, <4>2 DEF line, Line
    <3>5. answer' \in Seq(Line)
      BY <3>1, <3>3, <3>4, SeqDef
    <3>6. QED BY <2>1, <3>5 DEF Inv, LinesType, Holding, ModemAnswers, readers
  <2>2. CASE ModemSends
    <3>1. Append(wire, Head(answer)) \in Seq(Line) /\ Tail(answer) \in Seq(Line)
      BY <2>2 DEF Inv, LinesType, ModemSends
    <3>2. QED BY <2>2, <3>1 DEF Inv, LinesType, Holding, ModemSends, readers
  <2>3. CASE SetUnavailable
    BY <2>3 DEF Inv, LinesType, Holding, SetUnavailable, modem
  <2>4. CASE Unsolicited
    <3>1. /\ line("other", 0) \in Line /\ line("prefix", 0) \in Line
          /\ line("sms", 0) \in Line
      BY DEF line, Line
    <3>2. /\ <<line("other", 0)>> \in Seq(Line) /\ <<line("prefix", 0)>> \in Seq(Line)
          /\ <<line("sms", 0), line("other", 0)>> \in Seq(Line)
      BY <3>1
    <3>3. wire \in Seq(Line)
      BY DEF Inv, LinesType
    <3>4. \A l \in Seq(Line) : wire \o l \in Seq(Line)
      BY <3>3, ConcatProperties
    <3>5. wire' \in Seq(Line)
      BY <2>4, <3>2, <3>4 DEF Unsolicited
    <3>6. QED BY <2>4, <3>5 DEF Inv, LinesType, Holding, Unsolicited, readers
  <2>5. CASE HangUp
    <3>1. wire \in Seq(Line) /\ <<>> \in Seq(Line)
      BY DEF Inv, LinesType
    <3>2. wire # <<>> => wire[Len(wire)] \in Line /\ SubSeq(wire, 1, Len(wire) - 1) \in Seq(Line)
      BY <3>1
    <3>3. QED BY <2>5, <3>1, <3>2 DEF Inv, LinesType, Holding, HangUp
  <2>6. QED BY <2>1, <2>2, <2>3, <2>4, <2>5 DEF ModemNext
<1>5. FlagsType'
  <2>1. CASE HangUp
    BY <2>1 DEF Inv, FlagsType, HangUp
  <2>2. CASE ModemNext \/ SetUnavailable \/ Unsolicited
    BY <2>2 DEF Inv, ModemNext, ModemAnswers, ModemSends, SetUnavailable, Unsolicited,
                FlagsType, modem, history
  <2>3. QED BY <2>1, <2>2
<1>6. CountersType' /\ PlacesType'
  BY DEF Inv, ModemNext, ModemAnswers, ModemSends, SetUnavailable, Unsolicited, HangUp,
         CountersType, PlacesType, readers, opening, history
<1>7. QED BY <1>1, <1>2, <1>3, <1>4, <1>5, <1>6 DEF Inv

LEMMA NextInv == Inv /\ [Next]_vars => Inv'
<1> SUFFICES ASSUME Inv, [Next]_vars PROVE Inv'
  OBVIOUS
<1>1. CASE UNCHANGED vars
  BY <1>1 DEF Inv, CommandType, ResponseType, LinesType, ModemType, FlagsType, CountersType,
              PlacesType, ResponseHasWaiter, Waiting, Working, Holding, vars, command,
              readers, opening, modem, history
<1>2. CASE Next
  BY <1>2, MainInv, JobInv, CommandInv, ReaderInv, ModemInv DEF Next
<1>3. QED BY <1>1, <1>2

LEMMA InvHolds == Spec => []Inv
  BY InitInv, NextInv, PTL DEF Spec

\* Type correctness, for any requests, retries, sessions and modem.
THEOREM TypeCorrect == Spec => []TypeOK
<1>1. Inv => TypeOK
  BY TypeParts DEF Inv
<1>2. QED BY <1>1, InvHolds, PTL

\* A response that is pending belongs to the command that waits: what the reader
\* records under the mutex never outlives its caller, though at_open clears the
\* response without the mutex.
THEOREM WaiterHolds == Spec => []ResponseHasWaiter
<1>1. Inv => ResponseHasWaiter
  BY DEF Inv
<1>2. QED BY <1>1, InvHolds, PTL
-----------------------------------------------------------------------------
(* A line is recorded for the command it answers.                          *)

\* The line that ends an answer: a result, or the prompt for the second part of
\* an SMS.  Only a command has them.
Ends(l) == l.kind \in {"final", "prompt"}

\* The lines a queue or the reader holds answer the last command or none.
OfLast(l) == l.cmd \in {0, sent} /\ (l.kind \in {"final", "prompt", "digits"} => l.cmd # 0)
AllOfLast(q) == \A i \in DOMAIN q : OfLast(q[i])
Silent(q) == \A i \in DOMAIN q : q[i].cmd = 0
Ended(q) == \E i \in DOMAIN q : Ends(q[i])
SilentAfterEnd(q) == \A i, j \in DOMAIN q : Ends(q[i]) /\ i < j => q[j].cmd = 0
EndsLast(q) == \A i \in DOMAIN q : Ends(q[i]) => i = Len(q)

\* Nothing of a command is on its way to the modem or back.
Quiet ==
    /\ toModem = <<>> /\ answer = <<>> /\ Silent(wire)
    /\ held # NoLine => held.cmd = 0

\* On the way are the last command or its answer, the end of the answer last.
OneWay ==
    /\ AllOfLast(wire) /\ AllOfLast(answer)
    /\ held # NoLine => OfLast(held)
    /\ leftover # NoLine => leftover.cmd = 0 /\ OfLast(leftover)
    /\ toModem # <<>> => Len(toModem) = 1 /\ toModem[1].id = sent /\ sent # 0
    /\ toModem # <<>> => answer = <<>> /\ Silent(wire) /\ (held # NoLine => held.cmd = 0)
    /\ SilentAfterEnd(wire) /\ EndsLast(answer)
    /\ Ended(wire) => answer = <<>>
    /\ held # NoLine /\ Ends(held) => Silent(wire) /\ answer = <<>>

\* A command that is over has left nothing behind.
NothingLeft ==
    /\ cmd \in {"idle", "send", "drain"} => Quiet
    /\ s_readerClosed => Quiet
    /\ sp_response # NoLine => (sp_response.final # NoLine => Quiet)

Recorded ==
    sp_response # NoLine =>
        /\ sp_response.final # NoLine => sp_response.final.cmd = sp_response.id
        /\ \A i \in DOMAIN sp_response.inter :
              sp_response.inter[i].cmd \in {sp_response.id, 0}

\* Whose turn it is: the reader of a session ends before the next is opened,
\* and at the end of the session's lines.
Turns ==
    /\ main \in {"open", "at_open"} => reader = "none"
    /\ main = "wait" /\ s_closed => reader = "none"
    /\ main = "at_open" => ~s_closed
    /\ held # NoLine => reader \in {"line", "second"}
    /\ hup => toModem = <<>> /\ answer = <<>>
    /\ reader \in {"closed", "at_close", "onATReaderClosed"} => hup /\ wire = <<>>

OwnInv == Turns /\ (~stray => OneWay /\ NothingLeft /\ Recorded)

-----------------------------------------------------------------------------
(* What is left of a queue keeps what was said of it.                      *)

LEMMA TailKeeps ==
    ASSUME NEW q \in Seq(Line), q # <<>>
    PROVE  /\ AllOfLast(q) => OfLast(Head(q)) /\ AllOfLast(Tail(q))
           /\ Silent(q) => Head(q).cmd = 0 /\ Silent(Tail(q))
           /\ SilentAfterEnd(q) => SilentAfterEnd(Tail(q))
           /\ SilentAfterEnd(q) /\ Ends(Head(q)) => Silent(Tail(q))
           /\ Ended(Tail(q)) => Ended(q)
           /\ Ends(Head(q)) => Ended(q)
           /\ EndsLast(q) => EndsLast(Tail(q))
           /\ EndsLast(q) /\ Ends(Head(q)) => Tail(q) = <<>>
<1>1. /\ Head(q) = q[1] /\ Tail(q) \in Seq(Line) /\ Len(Tail(q)) = Len(q) - 1
      /\ Len(q) \in Nat \ {0} /\ DOMAIN q = 1 .. Len(q)
      /\ DOMAIN Tail(q) = 1 .. Len(q) - 1
      /\ \A i \in 1 .. Len(q) - 1 : Tail(q)[i] = q[i + 1]
  BY HeadTailProperties
<1> DEFINE t == Tail(q)
<1> HIDE DEF t
<1>2. /\ DOMAIN t = 1 .. Len(q) - 1 /\ Len(t) = Len(q) - 1
      /\ \A i \in DOMAIN t : i \in Nat /\ i + 1 \in DOMAIN q /\ 1 < i + 1 /\ t[i] = q[i + 1]
      /\ 1 \in DOMAIN q
  BY <1>1 DEF t
<1>3. AllOfLast(q) => OfLast(q[1]) /\ AllOfLast(t)
  BY <1>2 DEF AllOfLast
<1>4. Silent(q) => q[1].cmd = 0 /\ Silent(t)
  BY <1>2 DEF Silent
<1>5. SilentAfterEnd(q) => SilentAfterEnd(t)
  <2> SUFFICES ASSUME SilentAfterEnd(q), NEW i \in DOMAIN t, NEW j \in DOMAIN t,
                      Ends(t[i]), i < j
               PROVE  t[j].cmd = 0
    BY DEF SilentAfterEnd
  <2>1. /\ i + 1 \in DOMAIN q /\ j + 1 \in DOMAIN q /\ i + 1 < j + 1
        /\ t[i] = q[i + 1] /\ t[j] = q[j + 1]
    BY <1>2
  <2>2. QED BY <2>1 DEF SilentAfterEnd
<1>6. SilentAfterEnd(q) /\ Ends(q[1]) => Silent(t)
  BY <1>2 DEF SilentAfterEnd, Silent
<1>7. (Ended(t) => Ended(q)) /\ (Ends(q[1]) => Ended(q))
  BY <1>2 DEF Ended
<1>8. EndsLast(q) => EndsLast(t)
  <2> SUFFICES ASSUME EndsLast(q), NEW i \in DOMAIN t, Ends(t[i]) PROVE i = Len(t)
    BY DEF EndsLast
  <2>1. i + 1 \in DOMAIN q /\ t[i] = q[i + 1] /\ i \in Nat
    BY <1>2
  <2>2. i + 1 = Len(q)
    BY <2>1 DEF EndsLast
  <2>3. QED BY <1>1, <1>2, <2>1, <2>2
<1>9. EndsLast(q) /\ Ends(q[1]) => t = <<>>
  <2> SUFFICES ASSUME EndsLast(q), Ends(q[1]) PROVE t = <<>>
    OBVIOUS
  <2>1. Len(q) = 1
    BY <1>2 DEF EndsLast
  <2>2. Len(t) = 0 /\ t \in Seq(Line)
    BY <1>1, <1>2, <2>1 DEF t
  <2>3. QED BY <2>2
<1>10. QED BY <1>1, <1>3, <1>4, <1>5, <1>6, <1>7, <1>8, <1>9 DEF t

LEMMA AppendKeeps ==
    ASSUME NEW q \in Seq(Line), NEW l \in Line
    PROVE  /\ AllOfLast(q) /\ OfLast(l) => AllOfLast(Append(q, l))
           /\ Silent(q) /\ l.cmd = 0 => Silent(Append(q, l))
           /\ SilentAfterEnd(q) /\ (Ended(q) => l.cmd = 0) => SilentAfterEnd(Append(q, l))
           /\ Ended(Append(q, l)) => Ended(q) \/ Ends(l)
<1> DEFINE a == Append(q, l)
<1>1. /\ Len(q) \in Nat /\ DOMAIN q = 1 .. Len(q) /\ DOMAIN a = 1 .. Len(q) + 1
      /\ \A i \in 1 .. Len(q) : a[i] = q[i]
      /\ a[Len(q) + 1] = l
  BY AppendProperties
<1> HIDE DEF a
<1>2. \A i \in DOMAIN a : \/ i \in DOMAIN q /\ a[i] = q[i]
                          \/ i = Len(q) + 1 /\ a[i] = l
  BY <1>1
<1>3. AllOfLast(q) /\ OfLast(l) => AllOfLast(a)
  BY <1>2 DEF AllOfLast
<1>4. Silent(q) /\ l.cmd = 0 => Silent(a)
  BY <1>2 DEF Silent
<1>5. SilentAfterEnd(q) /\ (Ended(q) => l.cmd = 0) => SilentAfterEnd(a)
  <2> SUFFICES ASSUME SilentAfterEnd(q), Ended(q) => l.cmd = 0,
                      NEW i \in DOMAIN a, NEW j \in DOMAIN a, Ends(a[i]), i < j
               PROVE  a[j].cmd = 0
    BY DEF SilentAfterEnd
  <2>1. i \in DOMAIN q /\ a[i] = q[i]
    BY <1>1, <1>2
  <2>2. CASE j \in DOMAIN q /\ a[j] = q[j]
    BY <2>1, <2>2 DEF SilentAfterEnd
  <2>3. CASE a[j] = l
    BY <2>1, <2>3 DEF Ended
  <2>4. QED BY <1>2, <2>2, <2>3
<1>6. Ended(a) => Ended(q) \/ Ends(l)
  BY <1>2 DEF Ended
<1>7. QED BY <1>3, <1>4, <1>5, <1>6 DEF a

\* The modem says something of its own.
LEMMA SaysKeeps ==
    ASSUME NEW q \in Seq(Line), NEW r \in Seq(Line),
           \A i \in DOMAIN r : r[i].cmd = 0 /\ r[i].kind \notin {"final", "prompt", "digits"}
    PROVE  /\ AllOfLast(q) => AllOfLast(q \o r)
           /\ Silent(q) => Silent(q \o r)
           /\ SilentAfterEnd(q) => SilentAfterEnd(q \o r)
           /\ Ended(q \o r) => Ended(q)
<1> DEFINE c == q \o r
<1>1. /\ Len(q) \in Nat /\ Len(r) \in Nat /\ DOMAIN q = 1 .. Len(q) /\ DOMAIN r = 1 .. Len(r)
      /\ DOMAIN c = 1 .. Len(q) + Len(r)
      /\ \A i \in 1 .. Len(q) + Len(r) : c[i] = IF i <= Len(q) THEN q[i] ELSE r[i - Len(q)]
  BY ConcatProperties
<1> HIDE DEF c
<1>2. \A i \in DOMAIN c : \/ i \in DOMAIN q /\ c[i] = q[i]
                          \/ i > Len(q) /\ c[i].cmd = 0 /\ c[i].kind \notin {"final", "prompt", "digits"}
  <2> TAKE i \in DOMAIN c
  <2>1. CASE i <= Len(q)
    BY <1>1, <2>1
  <2>2. CASE i > Len(q)
    <3>1. i - Len(q) \in DOMAIN r /\ c[i] = r[i - Len(q)]
      BY <1>1, <2>2
    <3>2. QED BY <2>2, <3>1
  <2>3. QED BY <1>1, <2>1, <2>2
<1>3. AllOfLast(q) => AllOfLast(c)
  BY <1>2 DEF AllOfLast, OfLast
<1>4. Silent(q) => Silent(c)
  BY <1>2 DEF Silent
<1>5. SilentAfterEnd(q) => SilentAfterEnd(c)
  <2> SUFFICES ASSUME SilentAfterEnd(q), NEW i \in DOMAIN c, NEW j \in DOMAIN c, Ends(c[i]), i < j
               PROVE  c[j].cmd = 0
    BY DEF SilentAfterEnd
  <2>1. i \in DOMAIN q /\ c[i] = q[i]
    BY <1>2 DEF Ends
  <2>2. QED BY <1>2, <2>1 DEF SilentAfterEnd
<1>6. Ended(c) => Ended(q)
  BY <1>2 DEF Ended, Ends
<1>7. QED BY <1>3, <1>4, <1>5, <1>6 DEF c

\* A line is cut off.
LEMMA CutKeeps ==
    ASSUME NEW q \in Seq(Line), q # <<>>
    PROVE  LET c == SubSeq(q, 1, Len(q) - 1)
               l == q[Len(q)]
           IN  /\ AllOfLast(q) => AllOfLast(c) /\ OfLast(l)
               /\ Silent(q) => Silent(c)
               /\ SilentAfterEnd(q) => SilentAfterEnd(c)
<1> DEFINE c == SubSeq(q, 1, Len(q) - 1)
<1>1. /\ Len(q) \in Nat /\ Len(q) > 0 /\ DOMAIN q = 1 .. Len(q)
  OBVIOUS
<1>2. \A i \in 1 .. Len(q) - 1 : q[i] \in Line
  BY <1>1
<1>3. /\ DOMAIN c = 1 .. Len(q) - 1 /\ \A i \in 1 .. Len(q) - 1 : c[i] = q[i]
  <2>1. c \in Seq(Line) /\ Len(c) = IF 1 <= Len(q) - 1 THEN Len(q) - 1 - 1 + 1 ELSE 0
    BY <1>1, <1>2, SubSeqProperties
  <2>2. \A i \in 1 .. (Len(q) - 1) - 1 + 1 : c[i] = q[1 + i - 1]
    BY <1>1, <1>2, SubSeqProperties
  <2>3. Len(c) = Len(q) - 1
    BY <1>1, <2>1
  <2>4. QED BY <1>1, <2>1, <2>2, <2>3
<1> HIDE DEF c
<1>4. \A i \in DOMAIN c : i \in DOMAIN q /\ c[i] = q[i]
  BY <1>1, <1>3
<1>5. Len(q) \in DOMAIN q
  BY <1>1
<1>6. AllOfLast(q) => AllOfLast(c) /\ OfLast(q[Len(q)])
  BY <1>4, <1>5 DEF AllOfLast
<1>7. Silent(q) => Silent(c)
  BY <1>4 DEF Silent
<1>8. SilentAfterEnd(q) => SilentAfterEnd(c)
  BY <1>4 DEF SilentAfterEnd
<1>9. QED BY <1>6, <1>7, <1>8 DEF c

-----------------------------------------------------------------------------
(* The turns of the threads.                                               *)

LEMMA TurnsNext == ASSUME Inv, Turns, Next PROVE Turns'
<1>1. CASE OpenChannel
  BY <1>1 DEF Turns, OpenChannel, readers
<1>2. CASE StoreReaderClosed \/ StoreResponse \/ StartReader \/ waitForClose
  BY <1>2 DEF Turns, StoreReaderClosed, StoreResponse, StartReader, waitForClose, readers,
              modem, opening
<1>3. CASE CommandNext \/ initializeCallback \/ onRequest
  <2>1. UNCHANGED <<main, reader, s_closed, held, hup, answer, wire>>
    BY <1>3 DEF CommandNext, SendFails, Send, WakesToNull, Wakes, TimesOut, Pause,
                initializeCallback, onRequest, readers, opening, modem
  <2>2. hup => toModem' = toModem
    BY <1>3 DEF CommandNext, SendFails, Send, WakesToNull, Wakes, TimesOut, Pause,
                initializeCallback, onRequest, modem
  <2>3. QED BY <2>1, <2>2 DEF Turns
<1>4. CASE readline \/ SecondLine \/ EndOfFile
  BY <1>4 DEF Turns, readline, SecondLine, EndOfFile, opening, modem
<1>5. CASE processLine
  <2>1. hup => toModem' = toModem
    BY <1>5 DEF processLine, handleUnsolicited, handleFinalResponse, writeCtrlZ, addIntermediate
  <2>2. QED BY <1>5, <2>1 DEF Turns, processLine, opening
<1>6. CASE onReaderClosed \/ at_close \/ onATReaderClosed
  BY <1>6 DEF Inv, PlacesType, Turns, onReaderClosed, at_close, onATReaderClosed, opening, modem
<1>7. CASE SetUnavailable
  BY <1>7 DEF Turns, SetUnavailable, opening, modem
<1>8. CASE ModemNext \/ Unsolicited \/ HangUp
  BY <1>8 DEF Turns, ModemNext, ModemAnswers, ModemSends, Unsolicited, HangUp, readers, opening
<1>9. QED BY <1>1, <1>2, <1>3, <1>4, <1>5, <1>6, <1>7, <1>8 DEF Next, MainNext, ReaderNext

-----------------------------------------------------------------------------
(* What is on the way, thread by thread.                                   *)

OnTheWay == <<toModem, answer, wire, held, leftover, sent>>
Own == OneWay /\ NothingLeft /\ Recorded

LEMMA SameWay ==
    ASSUME UNCHANGED OnTheWay
    PROVE  (OneWay => OneWay') /\ (Quiet => Quiet')
  BY DEF OnTheWay, OneWay, Quiet, AllOfLast, OfLast, Silent, Ended, Ends, SilentAfterEnd, EndsLast

LEMMA OwnMain == ASSUME Inv, Turns, Own, MainNext PROVE Own'
<1>1. CASE OpenChannel
  <2>1. /\ toModem' = <<>> /\ answer' = <<>> /\ wire' = <<>> /\ held' = NoLine
        /\ held = NoLine
        /\ UNCHANGED <<leftover, sent, cmd, sp_response, s_readerClosed>>
    BY <1>1 DEF Turns, OpenChannel, readers, history, command
  <2>2. OneWay'
    BY <2>1 DEF Own, OneWay, AllOfLast, OfLast, Silent, Ended, Ends, SilentAfterEnd, EndsLast
  <2>3. Quiet'
    BY <2>1 DEF Quiet, Silent
  <2>4. Recorded' /\ NothingLeft'
    BY <2>1, <2>3 DEF Own, Recorded, NothingLeft
  <2>5. QED BY <2>2, <2>4 DEF Own
<1>2. CASE StoreReaderClosed \/ StoreResponse \/ StartReader \/ waitForClose
  <2>1. /\ UNCHANGED OnTheWay /\ cmd' = cmd
        /\ s_readerClosed' => s_readerClosed
        /\ sp_response' = sp_response \/ sp_response' = NoLine
    BY <1>2 DEF StoreReaderClosed, StoreResponse, StartReader, waitForClose, readers,
                modem, history, command, OnTheWay
  <2>2. OneWay' /\ (Quiet => Quiet')
    BY <2>1, SameWay DEF Own
  <2>3. NothingLeft' /\ Recorded'
    BY <2>1, <2>2 DEF Own, NothingLeft, Recorded
  <2>4. QED BY <2>2, <2>3 DEF Own
<1>3. QED BY <1>1, <1>2 DEF MainNext

LEMMA OwnCommand ==
    ASSUME Inv, Own, ~stray', CommandNext \/ initializeCallback \/ onRequest
    PROVE  Own'
<1>1. CASE SendFails \/ WakesToNull \/ Pause \/ initializeCallback \/ onRequest
  <2>1. /\ UNCHANGED OnTheWay /\ s_readerClosed' = s_readerClosed
        /\ cmd \in {"idle", "send", "drain"} \/ cmd' \notin {"idle", "send", "drain"}
        /\ sp_response' = sp_response \/ sp_response' = NoLine
    BY <1>1 DEF SendFails, WakesToNull, Pause, initializeCallback, onRequest, readers,
                modem, history, OnTheWay
  <2>2. OneWay' /\ (Quiet => Quiet')
    BY <2>1, SameWay DEF Own
  <2>3. NothingLeft' /\ Recorded'
    BY <2>1, <2>2 DEF Own, NothingLeft, Recorded
  <2>4. QED BY <2>2, <2>3 DEF Own
<1>2. CASE Send
  <2>1. Quiet /\ sent \in Nat /\ toModem = <<>> /\ answer = <<>>
    BY <1>2 DEF Own, NothingLeft, Inv, ResponseType, Send, Quiet
  <2>2. /\ UNCHANGED <<answer, wire, held, leftover, s_readerClosed>> /\ sent' = sent + 1
        /\ toModem' = <<>> \/ toModem' = <<[id |-> sent', type |-> type]>>
        /\ cmd' = "wait" /\ ~s_readerClosed
        /\ sp_response' = [id |-> sent', type |-> type, pdu |-> type = "SMS", inter |-> <<>>,
                           final |-> NoLine]
    <3>1. UNCHANGED <<answer, wire, held, leftover, s_readerClosed>> /\ sent' = sent + 1
      BY <1>2 DEF Send, readers
    <3>2. Append(toModem, [id |-> sent + 1, type |-> type]) = <<[id |-> sent + 1, type |-> type]>>
      BY <2>1
    <3>3. QED BY <1>2, <2>1, <3>1, <3>2 DEF Send
  <2>3. OneWay'
    <3>1. /\ AllOfLast(wire)' /\ AllOfLast(answer)'
          /\ (held # NoLine => OfLast(held))'
          /\ (leftover # NoLine => leftover.cmd = 0 /\ OfLast(leftover))'
      BY <2>1, <2>2 DEF Own, OneWay, AllOfLast, OfLast, Quiet, Silent
    <3>2. (toModem # <<>> => Len(toModem) = 1 /\ toModem[1].id = sent /\ sent # 0)'
      BY <2>1, <2>2
    <3>3. /\ SilentAfterEnd(wire)' /\ EndsLast(answer)' /\ (Ended(wire) => answer = <<>>)'
      BY <2>1, <2>2 DEF Own, OneWay, SilentAfterEnd, EndsLast, Ended, Ends
    <3>4. /\ Silent(wire)' /\ (held # NoLine => held.cmd = 0)' /\ answer' = <<>>
      BY <2>1, <2>2 DEF Quiet, Silent
    <3>5. QED BY <3>1, <3>2, <3>3, <3>4 DEF OneWay
  <2>4. NothingLeft' /\ Recorded'
    <3>1. /\ sp_response'.final = NoLine /\ sp_response'.inter = <<>>
      BY <2>2
    <3>2. QED BY <2>2, <3>1 DEF NothingLeft, Recorded
  <2>5. QED BY <2>3, <2>4 DEF Own
<1>3. CASE Wakes
  <2>1. UNCHANGED OnTheWay /\ s_readerClosed' = s_readerClosed
    BY <1>3 DEF Wakes, readers, modem, history, OnTheWay
  <2>2. OneWay' /\ (Quiet => Quiet')
    BY <2>1, SameWay DEF Own
  <2>3. CASE UNCHANGED <<sp_response, cmd>>
    BY <2>1, <2>2, <2>3 DEF Own, NothingLeft, Recorded
  <2>4. CASE sp_response' = NoLine /\ (sp_response.final # NoLine \/ s_readerClosed)
    <3>1. Quiet
      BY <1>3, <2>4 DEF Own, NothingLeft, Wakes
    <3>2. QED BY <2>2, <2>4, <3>1 DEF Own, NothingLeft, Recorded
  <2>5. QED BY <1>3, <2>3, <2>4 DEF Wakes
<1>4. QED BY <1>1, <1>2, <1>3 DEF CommandNext, TimesOut

\* The reader takes a line, and later records it or not.
LEMMA OwnReads == ASSUME Inv, Turns, Own, readline \/ SecondLine PROVE Own'
<1>1. /\ wire \in Seq(Line) /\ wire # <<>>
      /\ UNCHANGED <<toModem, answer, sent, cmd, sp_response, s_readerClosed>>
  BY DEF Inv, LinesType, readline, SecondLine, history, command
<1>2. Tail(wire) \in Seq(Line) /\ Head(wire) \in Line
  BY <1>1
<1>3. ASSUME wire' = Tail(wire), leftover' = leftover, held' = Head(wire) \/ held' = NoLine
      PROVE  OneWay' /\ (Quiet => Quiet')
  <2>1. AllOfLast(wire)' /\ (held # NoLine => OfLast(held))' /\ AllOfLast(answer)'
        /\ (leftover # NoLine => leftover.cmd = 0 /\ OfLast(leftover))'
    BY <1>1, <1>3, TailKeeps DEF Own, OneWay, AllOfLast, OfLast
  <2>2. SilentAfterEnd(wire)' /\ EndsLast(answer)' /\ (Ended(wire) => answer = <<>>)'
    BY <1>1, <1>3, TailKeeps DEF Own, OneWay, SilentAfterEnd, EndsLast, Ended, Ends
  <2>3. Silent(wire) => Silent(wire)' /\ (held # NoLine => held.cmd = 0)'
    BY <1>1, <1>3, TailKeeps DEF Silent
  <2>4. (held # NoLine /\ Ends(held) => Silent(wire) /\ answer = <<>>)'
    BY <1>1, <1>3, TailKeeps DEF Own, OneWay, Silent, Ends
  <2>5. (toModem # <<>> => Len(toModem) = 1 /\ toModem[1].id = sent /\ sent # 0)'
    BY <1>1 DEF Own, OneWay
  <2>6. (toModem # <<>> => answer = <<>> /\ Silent(wire) /\ (held # NoLine => held.cmd = 0))'
    BY <1>1, <2>3 DEF Own, OneWay
  <2>7. OneWay'
    BY <2>1, <2>2, <2>4, <2>5, <2>6 DEF OneWay
  <2>8. Quiet => Quiet'
    BY <1>1, <2>3 DEF Quiet
  <2>9. QED BY <2>7, <2>8
<1>4. ASSUME wire' = wire, leftover # NoLine, held' = leftover, leftover' = NoLine
      PROVE  OneWay' /\ (Quiet => Quiet')
  <2>1. leftover.cmd = 0 /\ OfLast(leftover) /\ ~Ends(leftover)
    BY <1>4 DEF Own, OneWay, OfLast, Ends
  <2>2. QED BY <1>1, <1>4, <2>1 DEF Own, OneWay, Quiet, AllOfLast, OfLast, Silent, Ended, Ends,
                                    SilentAfterEnd, EndsLast
<1>5. OneWay' /\ (Quiet => Quiet')
  <2>1. CASE readline /\ leftover # NoLine
    BY <1>4, <2>1 DEF readline
  <2>2. CASE readline /\ leftover = NoLine
    BY <1>3, <2>2 DEF readline
  <2>3. CASE SecondLine
    BY <1>3, <2>3 DEF SecondLine
  <2>4. QED BY <2>1, <2>2, <2>3
<1>6. NothingLeft' /\ Recorded'
  BY <1>1, <1>5 DEF Own, NothingLeft, Recorded
<1>7. QED BY <1>5, <1>6 DEF Own

LEMMA OwnProcesses == ASSUME Inv, Turns, Own, processLine PROVE Own'
<1>1. /\ held \in Line /\ held # NoLine /\ held' = NoLine
      /\ UNCHANGED <<answer, wire, leftover, sent, cmd, s_readerClosed>>
  BY DEF Inv, LinesType, Holding, processLine, history, command
<1>2. OfLast(held)
  BY <1>1 DEF Own, OneWay
\* Without that line there is less on the way.
<1>3. ASSUME UNCHANGED toModem PROVE OneWay' /\ (Quiet => Quiet')
  BY <1>1, <1>3 DEF Own, OneWay, Quiet, AllOfLast, OfLast, Silent, Ended, Ends, SilentAfterEnd,
                    EndsLast
<1>4. CASE handleUnsolicited
  BY <1>1, <1>3, <1>4 DEF handleUnsolicited, Own, NothingLeft, Recorded
<1>5. ASSUME sp_response # NoLine,
             \/ held.kind = "final" /\ handleFinalResponse(held)
             \/ held.kind = "prompt" /\ writeCtrlZ
             \/ addIntermediate(held)
      PROVE  Own'
  <2>1. /\ sp_response \in Response /\ sp_response.id = sent /\ cmd = "wait"
    BY <1>5 DEF Inv, ResponseType, ResponseHasWaiter, Waiting
  <2>2. held.cmd \in {0, sp_response.id} /\ (held.kind \in {"final", "prompt"} => held.cmd = sp_response.id)
    BY <1>2, <2>1 DEF OfLast
  <2>3. CASE held.kind = "final" /\ handleFinalResponse(held)
    <3>1. /\ sp_response'.final = held /\ sp_response'.inter = sp_response.inter
          /\ sp_response'.id = sp_response.id /\ UNCHANGED toModem
      BY <2>1, <2>3 DEF handleFinalResponse, Response
    <3>2. Recorded'
      BY <1>5, <2>2, <2>3, <3>1 DEF Own, Recorded
    <3>3. Quiet'
      <4>2. Ends(held) /\ held.cmd # 0
        BY <1>2, <2>3 DEF Ends, OfLast
      <4>3. Silent(wire) /\ answer = <<>> /\ toModem = <<>>
        BY <1>1, <4>2 DEF Own, OneWay
      <4>4. QED BY <1>1, <3>1, <4>3 DEF Quiet, Silent
    <3>4. QED BY <1>1, <1>3, <3>1, <3>2, <3>3 DEF Own, NothingLeft
  <2>4. CASE addIntermediate(held)
    <3>1. /\ sp_response'.final = sp_response.final
          /\ sp_response'.inter = Append(sp_response.inter, held)
          /\ sp_response'.id = sp_response.id /\ UNCHANGED toModem
      BY <2>1, <2>4 DEF addIntermediate, Response
    <3>2. \A i \in DOMAIN sp_response.inter : sp_response.inter[i].cmd \in {sp_response.id, 0}
      BY <1>5 DEF Own, Recorded
    <3>3. sp_response.inter \in Seq(Line)
      BY <2>1 DEF Response
    <3>4. \A i \in DOMAIN Append(sp_response.inter, held) :
             Append(sp_response.inter, held)[i].cmd \in {sp_response.id, 0}
      <4> DEFINE a == Append(sp_response.inter, held)
      <4>1. \A i \in DOMAIN a : \/ i \in DOMAIN sp_response.inter /\ a[i] = sp_response.inter[i]
                                \/ a[i] = held
        BY <1>1, <3>3, AppendProperties
      <4> HIDE DEF a
      <4>2. \A i \in DOMAIN a : a[i].cmd \in {sp_response.id, 0}
        BY <2>2, <3>2, <4>1
      <4>3. QED BY <4>2 DEF a
    <3>5. Recorded'
      BY <1>5, <3>1, <3>4 DEF Own, Recorded
    <3>6. OneWay' /\ (Quiet => Quiet')
      BY <1>3, <3>1
    <3>7. NothingLeft'
      BY <1>1, <1>5, <3>1, <3>6 DEF Own, NothingLeft
    <3>8. QED BY <3>5, <3>6, <3>7 DEF Own
  <2>5. CASE held.kind = "prompt" /\ writeCtrlZ
    <3>1. Ends(held) /\ held.cmd # 0
      BY <1>2, <2>5 DEF Ends, OfLast
    <3>2. Silent(wire) /\ answer = <<>> /\ toModem = <<>>
      BY <1>1, <3>1 DEF Own, OneWay
    <3>3. ~Quiet
      BY <1>1, <3>1 DEF Quiet
    <3>4. /\ sp_response'.final = sp_response.final /\ sp_response'.inter = sp_response.inter
          /\ sp_response'.id = sp_response.id
      BY <2>1, <2>5 DEF writeCtrlZ, Response
    <3>5. Recorded'
      BY <1>5, <3>4 DEF Own, Recorded
    <3>6. NothingLeft'
      BY <1>1, <1>5, <2>1, <3>3, <3>4 DEF Own, NothingLeft
    <3>7. toModem' = <<>> \/ toModem' = <<[id |-> sent, type |-> "SMS PDU"]>>
      <4>1. Append(toModem, [id |-> sp_response.id, type |-> "SMS PDU"])
              = <<[id |-> sp_response.id, type |-> "SMS PDU"]>>
        BY <3>2
      <4>2. QED BY <2>1, <2>5, <3>2, <4>1 DEF writeCtrlZ
    <3>8. OneWay'
      <4>1. (toModem # <<>> => Len(toModem) = 1 /\ toModem[1].id = sent /\ sent # 0)'
        <5> DEFINE c == [id |-> sent, type |-> "SMS PDU"]
        <5>1. c.id = sent
          OBVIOUS
        <5>2. toModem' = <<>> \/ toModem' = <<c>>
          BY <3>7
        <5> HIDE DEF c
        <5>3. sent # 0
          BY <1>2, <3>1 DEF OfLast
        <5>4. QED BY <1>1, <5>1, <5>2, <5>3
      <4>2. (toModem # <<>> => answer = <<>> /\ Silent(wire) /\ (held # NoLine => held.cmd = 0))'
        BY <1>1, <3>2 DEF Silent
      <4>3. AllOfLast(wire)' /\ AllOfLast(answer)' /\ (held # NoLine => OfLast(held))'
            /\ (leftover # NoLine => leftover.cmd = 0 /\ OfLast(leftover))'
        BY <1>1 DEF Own, OneWay, AllOfLast, OfLast
      <4>4. /\ SilentAfterEnd(wire)' /\ EndsLast(answer)' /\ (Ended(wire) => answer = <<>>)'
            /\ (held # NoLine /\ Ends(held) => Silent(wire) /\ answer = <<>>)'
        BY <1>1 DEF Own, OneWay, SilentAfterEnd, EndsLast, Ended, Ends
      <4>5. QED BY <4>1, <4>2, <4>3, <4>4 DEF OneWay
    <3>9. QED BY <3>5, <3>6, <3>8 DEF Own
  <2>6. QED BY <1>5, <2>3, <2>4, <2>5 
<1>6. CASE sp_response = NoLine
  BY <1>4, <1>6 DEF processLine
<1>7. CASE sp_response # NoLine
  <2>1. \/ held.kind = "final" /\ handleFinalResponse(held)
        \/ held.kind = "prompt" /\ writeCtrlZ
        \/ addIntermediate(held)
        \/ handleUnsolicited
    BY <1>7 DEF processLine
  <2>2. QED BY <1>4, <1>5, <1>7, <2>1
<1>8. QED BY <1>6, <1>7

LEMMA OwnReaderEnds ==
    ASSUME Inv, Turns, Own, EndOfFile \/ onReaderClosed \/ at_close \/ onATReaderClosed
    PROVE  Own'
<1>1. UNCHANGED <<toModem, answer, wire, leftover, sent, cmd, sp_response>>
      /\ (held' = held \/ held' = NoLine)
  BY DEF EndOfFile, onReaderClosed, at_close, onATReaderClosed, history, command, modem
<1>2. OneWay' /\ (Quiet => Quiet')
  BY <1>1 DEF Own, OneWay, Quiet, AllOfLast, OfLast, Silent, Ended, Ends, SilentAfterEnd, EndsLast
<1>3. s_readerClosed' => Quiet
  <2>1. CASE onReaderClosed \/ at_close
    <3>1. hup /\ wire = <<>> /\ held = NoLine /\ toModem = <<>> /\ answer = <<>>
      BY <2>1 DEF Turns, onReaderClosed, at_close
    <3>2. QED BY <3>1 DEF Quiet, Silent
  <2>2. CASE EndOfFile \/ onATReaderClosed
    BY <2>2 DEF Own, NothingLeft, EndOfFile, onATReaderClosed
  <2>3. QED BY <2>1, <2>2
<1>4. NothingLeft' /\ Recorded'
  BY <1>1, <1>2, <1>3 DEF Own, NothingLeft, Recorded
<1>5. QED BY <1>2, <1>4 DEF Own

\* The modem answers a command whose line was alone on the way.
LEMMA OwnAnswers == ASSUME Inv, Own, ModemAnswers PROVE Own'
<1>1. /\ toModem \in Seq(ToModem) /\ toModem # <<>> /\ Len(toModem) = 1 /\ toModem[1].id = sent
      /\ Silent(wire) /\ (held # NoLine => held.cmd = 0) /\ Head(toModem) = toModem[1]
  BY DEF Inv, ModemType, ModemAnswers, Own, OneWay
<1>2. toModem' = <<>> /\ UNCHANGED <<wire, held, leftover, sent, cmd, sp_response, s_readerClosed>>
  BY <1>1 DEF ModemAnswers, readers, history, command
<1>3. Head(toModem) \in ToModem /\ Head(toModem).id = sent
  BY <1>1
<1>4. PICK kinds \in Answers(Head(toModem)) :
         answer' = [i \in DOMAIN kinds |-> line(kinds[i], Head(toModem).id)]
  BY DEF ModemAnswers
<1>5. kinds \in Seq({"final", "prompt", "digits", "prefix"})
  BY <1>3, <1>4, AnswerKinds
<1>6. \A i \in DOMAIN kinds : kinds[i] \in {"final", "prompt"} => i = Len(kinds)
  <2>1. Head(toModem).type \in Types \cup {"SMS PDU"}
    BY <1>3 DEF ToModem
  <2>2. kinds \in {<<"final">>, <<"prompt">>, <<"digits", "final">>, <<"prefix", "final">>,
                   <<"prefix", "prefix", "final">>}
    BY <1>4, <2>1 DEF Answers, Types
  <2>3. /\ kinds = <<"final">> \/ kinds = <<"prompt">> => Len(kinds) = 1
        /\ kinds = <<"digits", "final">> => Len(kinds) = 2 /\ kinds[1] = "digits"
        /\ kinds = <<"prefix", "final">> => Len(kinds) = 2 /\ kinds[1] = "prefix"
        /\ kinds = <<"prefix", "prefix", "final">>
              => Len(kinds) = 3 /\ kinds[1] = "prefix" /\ kinds[2] = "prefix"
    OBVIOUS
  <2>4. DOMAIN kinds = 1 .. Len(kinds)
    BY <1>5
  <2> DEFINE E(i) == kinds[i] \in {"final", "prompt"}
  <2>5. \/ Len(kinds) = 1
        \/ Len(kinds) = 2 /\ ~E(1)
        \/ Len(kinds) = 3 /\ ~E(1) /\ ~E(2)
    BY <2>2, <2>3, Zenon
  <2> HIDE DEF E
  <2>6. \A i \in 1 .. Len(kinds) : E(i) => i = Len(kinds)
    <3>1. CASE Len(kinds) = 1
      <4>1. \A i \in 1 .. 1 : i = 1
        OBVIOUS
      <4>2. QED BY <3>1, <4>1
    <3>2. CASE Len(kinds) = 2 /\ ~E(1)
      <4>1. \A i \in 1 .. 2 : i = 1 \/ i = 2
        OBVIOUS
      <4>2. QED BY <3>2, <4>1, Zenon
    <3>3. CASE Len(kinds) = 3 /\ ~E(1) /\ ~E(2)
      <4>1. \A i \in 1 .. 3 : i = 1 \/ i = 2 \/ i = 3
        OBVIOUS
      <4>2. QED BY <3>3, <4>1, Zenon
    <3>4. QED BY <2>5, <3>1, <3>2, <3>3
  <2>7. QED BY <2>4, <2>6 DEF E
<1>7. DOMAIN answer' = DOMAIN kinds /\ Len(answer') = Len(kinds)
      /\ \A i \in DOMAIN kinds : answer'[i].kind = kinds[i] /\ answer'[i].cmd = sent
  <2>1. DOMAIN answer' = 1 .. Len(kinds) /\ Len(kinds) \in Nat
    BY <1>4, <1>5
  <2>2. Len(answer') = Len(kinds)
    BY <1>4, <1>5
  <2>3. \A i \in DOMAIN kinds : answer'[i].kind = kinds[i] /\ answer'[i].cmd = sent
    BY <1>3, <1>4 DEF line
  <2>4. QED BY <1>4, <2>2, <2>3
\* A command has been sent when a line of one is on the way.
<1>8. sent # 0
  BY <1>1 DEF Own, OneWay
<1>9. AllOfLast(answer)' /\ EndsLast(answer)'
  BY <1>2, <1>6, <1>7, <1>8 DEF AllOfLast, OfLast, EndsLast, Ends
<1>10. OneWay'
  <2>1. ~Ended(wire) /\ (held # NoLine => ~Ends(held))
    BY <1>1 DEF Own, OneWay, AllOfLast, OfLast, Silent, Ended, Ends
  <2>2. /\ AllOfLast(wire)' /\ (held # NoLine => OfLast(held))'
        /\ (leftover # NoLine => leftover.cmd = 0 /\ OfLast(leftover))'
        /\ SilentAfterEnd(wire)' /\ ~Ended(wire)' /\ (held # NoLine => ~Ends(held))'
    BY <1>2, <2>1 DEF Own, OneWay, AllOfLast, OfLast, SilentAfterEnd, Ended, Ends
  <2>3. QED BY <1>2, <1>9, <2>2 DEF OneWay
<1>11. ~Quiet
  BY <1>1 DEF Quiet
<1>12. NothingLeft' /\ Recorded'
  BY <1>2, <1>11 DEF Own, NothingLeft, Recorded
<1>13. QED BY <1>10, <1>12 DEF Own

LEMMA OwnModem ==
    ASSUME Inv, Turns, Own, ~stray', ModemSends \/ Unsolicited \/ HangUp \/ SetUnavailable
    PROVE  Own'
<1>1. wire \in Seq(Line) /\ answer \in Seq(Line)
  BY DEF Inv, LinesType
<1>2. UNCHANGED <<held, sent, cmd, sp_response, s_readerClosed>>
  BY DEF ModemSends, Unsolicited, HangUp, SetUnavailable, readers, history, command, modem
<1>3. CASE ModemSends
  <2>1. /\ answer # <<>> /\ toModem = <<>> /\ wire' = Append(wire, Head(answer))
        /\ answer' = Tail(answer) /\ UNCHANGED <<toModem, leftover>>
    BY <1>3 DEF Own, OneWay, ModemSends, readers
  <2>2. ~Ended(wire) /\ Head(answer) \in Line /\ AllOfLast(answer) /\ EndsLast(answer)
        /\ ~(held # NoLine /\ Ends(held))
    BY <1>1, <2>1 DEF Own, OneWay
  <2>3. AllOfLast(wire)' /\ AllOfLast(answer)' /\ (held # NoLine => OfLast(held))'
        /\ (leftover # NoLine => leftover.cmd = 0 /\ OfLast(leftover))'
    BY <1>1, <1>2, <2>1, <2>2, TailKeeps, AppendKeeps DEF Own, OneWay, AllOfLast, OfLast
  <2>4. SilentAfterEnd(wire)' /\ EndsLast(answer)'
    <3>1. SilentAfterEnd(Append(wire, Head(answer))) /\ EndsLast(Tail(answer))
      BY <1>1, <2>1, <2>2, TailKeeps, AppendKeeps DEF Own, OneWay
    <3>2. QED BY <2>1, <3>1 DEF SilentAfterEnd, EndsLast, Ends
  <2>5. (Ended(wire) => answer = <<>>)'
    BY <1>1, <2>1, <2>2, TailKeeps, AppendKeeps DEF Ended, Ends
  <2>6. ~(held # NoLine /\ Ends(held))'
    BY <1>2, <2>2 DEF Ends
  <2>7. OneWay'
    BY <2>1, <2>3, <2>4, <2>5, <2>6 DEF OneWay
  <2>8. ~Quiet
    BY <2>1 DEF Quiet
  <2>9. NothingLeft' /\ Recorded'
    BY <1>2, <2>8 DEF Own, NothingLeft, Recorded
  <2>10. QED BY <2>7, <2>9 DEF Own
<1>4. CASE Unsolicited
  <2>1. PICK r \in {<<line("other", 0)>>, <<line("prefix", 0)>>,
                    <<line("sms", 0), line("other", 0)>>} : wire' = wire \o r
    BY <1>4 DEF Unsolicited
  <2>2. /\ line("other", 0) \in Line /\ line("prefix", 0) \in Line /\ line("sms", 0) \in Line
        /\ \A k : line(k, 0).kind = k /\ line(k, 0).cmd = 0
    BY DEF line, Line
  <2>3. r \in Seq(Line) /\ \A i \in DOMAIN r : r[i].cmd = 0 /\ r[i].kind \notin {"final", "prompt", "digits"}
    <3>1. CASE r = <<line("other", 0)>>
      BY <2>2, <3>1
    <3>2. CASE r = <<line("prefix", 0)>>
      BY <2>2, <3>2
    <3>3. CASE r = <<line("sms", 0), line("other", 0)>>
      BY <2>2, <3>3
    <3>4. QED BY <2>1, <3>1, <3>2, <3>3
  <2>4. UNCHANGED <<toModem, answer, leftover>>
    BY <1>4 DEF Unsolicited, readers
  <2>5. AllOfLast(wire)' /\ AllOfLast(answer)' /\ (held # NoLine => OfLast(held))'
        /\ (leftover # NoLine => leftover.cmd = 0 /\ OfLast(leftover))'
    BY <1>1, <1>2, <2>1, <2>3, <2>4, SaysKeeps DEF Own, OneWay, AllOfLast, OfLast
  <2>6. SilentAfterEnd(wire)' /\ EndsLast(answer)'
    BY <1>1, <2>1, <2>3, <2>4, SaysKeeps DEF Own, OneWay, SilentAfterEnd, EndsLast, Ends
  <2>7. (Ended(wire) => answer = <<>>)'
    BY <1>1, <2>1, <2>3, <2>4, SaysKeeps DEF Own, OneWay, Ended, Ends
  <2>8. Silent(wire) => Silent(wire)'
    BY <1>1, <2>1, <2>3, SaysKeeps DEF Silent
  <2>9. OneWay'
    BY <1>2, <2>4, <2>5, <2>6, <2>7, <2>8 DEF Own, OneWay, Ends
  <2>10. Quiet => Quiet'
    BY <1>2, <2>4, <2>8 DEF Quiet
  <2>11. NothingLeft' /\ Recorded'
    BY <1>2, <2>10 DEF Own, NothingLeft, Recorded
  <2>12. QED BY <2>9, <2>11 DEF Own
<1>5. CASE HangUp
  <2>1. toModem' = <<>> /\ answer' = <<>>
    BY <1>5 DEF HangUp
  <2>2. CASE UNCHANGED <<wire, leftover>>
    <3>1. OneWay'
      BY <1>2, <2>1, <2>2 DEF Own, OneWay, AllOfLast, OfLast, Silent, Ended, Ends,
                              SilentAfterEnd, EndsLast
    <3>2. Quiet => Quiet'
      BY <1>2, <2>1, <2>2 DEF Quiet, Silent
    <3>3. QED BY <1>2, <3>1, <3>2 DEF Own, NothingLeft, Recorded
  <2>3. CASE /\ wire # <<>> /\ leftover' = wire[Len(wire)]
             /\ wire' = SubSeq(wire, 1, Len(wire) - 1) /\ wire[Len(wire)].cmd = 0
    <3>1. AllOfLast(wire)' /\ AllOfLast(answer)' /\ (held # NoLine => OfLast(held))'
          /\ (leftover # NoLine => leftover.cmd = 0 /\ OfLast(leftover))'
      BY <1>1, <1>2, <2>1, <2>3, CutKeeps DEF Own, OneWay, AllOfLast, OfLast
    <3>2. SilentAfterEnd(wire)' /\ EndsLast(answer)'
      BY <1>1, <2>1, <2>3, CutKeeps DEF Own, OneWay, SilentAfterEnd, EndsLast, Ends
    <3>3. Silent(wire) => Silent(wire)'
      BY <1>1, <2>3, CutKeeps DEF Silent
    <3>4. OneWay'
      BY <1>2, <2>1, <3>1, <3>2, <3>3 DEF Own, OneWay, Ends
    <3>5. Quiet => Quiet'
      BY <1>2, <2>1, <3>3 DEF Quiet
    <3>6. QED BY <1>2, <3>4, <3>5 DEF Own, NothingLeft, Recorded
  <2>4. QED BY <1>5, <2>2, <2>3 DEF HangUp
<1>6. CASE SetUnavailable
  <2>1. UNCHANGED OnTheWay
    BY <1>2, <1>6 DEF SetUnavailable, modem, OnTheWay
  <2>2. QED BY <1>2, <2>1, SameWay DEF Own, NothingLeft, Recorded
<1>7. QED BY <1>3, <1>4, <1>5, <1>6

LEMMA OwnInvInit == Init => OwnInv
  BY DEF Init, OwnInv, Turns, OneWay, NothingLeft, Recorded, Quiet, AllOfLast, Silent, Ended,
         SilentAfterEnd, EndsLast

\* Once lines of a command given up may arrive, nothing more is promised.
LEMMA OwnInvNext == Inv /\ OwnInv /\ [Next]_vars => OwnInv'
<1> SUFFICES ASSUME Inv, OwnInv, [Next]_vars PROVE OwnInv'
  OBVIOUS
<1>1. CASE UNCHANGED vars
  <2>1. Turns'
    BY <1>1 DEF OwnInv, Turns, vars, readers, opening, modem
  <2>2. UNCHANGED OnTheWay /\ UNCHANGED <<cmd, sp_response, s_readerClosed, stray>>
    BY <1>1 DEF vars, readers, modem, history, command, OnTheWay
  <2>3. QED BY <2>1, <2>2, SameWay DEF OwnInv, NothingLeft, Recorded
<1>2. CASE Next
  <2>1. Turns'
    BY <1>2, TurnsNext DEF OwnInv
  <2>2. stray => stray'
    BY <1>2 DEF Inv, FlagsType, Next, MainNext, OpenChannel, StoreReaderClosed, StoreResponse,
                StartReader, waitForClose, CommandNext, SendFails, Send, WakesToNull, Wakes,
                TimesOut, Pause, initializeCallback, onRequest, ReaderNext, readline,
                SecondLine, EndOfFile, processLine, onReaderClosed, at_close,
                onATReaderClosed, SetUnavailable, ModemNext, ModemAnswers, ModemSends,
                Unsolicited, HangUp, history
  <2>3. ASSUME ~stray' PROVE Own'
    <3>1. Turns /\ Own
      BY <2>2, <2>3 DEF OwnInv, Own
    <3>2. QED BY <1>2, <2>3, <3>1, OwnMain, OwnCommand, OwnReads, OwnProcesses, OwnReaderEnds,
                 OwnAnswers, OwnModem DEF Next, ReaderNext, ModemNext
  <2>4. QED BY <2>1, <2>3 DEF OwnInv, Own
<1>3. QED BY <1>1, <1>2

LEMMA OwnInvHolds == Spec => []OwnInv
  BY OwnInvInit, OwnInvNext, InvHolds, PTL DEF Spec

\* A line that answers one command is never recorded for another, for any
\* requests, any number of sessions and commands, and whatever the modem says of
\* its own between the lines of an answer; unless an attempt of the handshake was
\* given up or a line was cut off.
THEOREM AnswersAreOwn == Spec => []OwnAnswer
<1>1. OwnInv => OwnAnswer
  BY DEF OwnInv, Recorded, OwnAnswer
<1>2. QED BY <1>1, OwnInvHolds, PTL

=============================================================================
