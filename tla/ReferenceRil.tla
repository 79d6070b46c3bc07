----------------------------- MODULE ReferenceRil ------------------------------
(***************************************************************************)
(* The reference RIL (reference-ril.c): what it does with each request,    *)
(* the radio state and its poll of the SIM, and the main loop that opens   *)
(* the AT channel again.                                                   *)
(*                                                                         *)
(* Three kinds of threads run it.  The command thread of libril carries    *)
(* out requests and timed callbacks, one at a time; a reader thread per    *)
(* session of the channel takes unsolicited lines and tells that the       *)
(* channel closed; the main loop opens the channel.  An AT command is one  *)
(* step, with the outcome the modem gives it (AtChannel has the rest).     *)
(*                                                                         *)
(* The code of a thread is a stack of instructions; a C function is the    *)
(* operator of its name, which gives the instructions up to its next AT    *)
(* command, and after that, from the outcome, those up to the next one.    *)
(***************************************************************************)
EXTENDS RilMarshal

CONSTANTS
    Requests,            \* the commands the phone may send: [request, parcel]
    LateRequests,        \* bound: the requests sent after the first session too
    MaxOpens,            \* bound: sessions of the AT channel, the last one stays open
    MaxTimers,           \* bound: callbacks of a kind that are counted
    USE_TI_COMMANDS,     \* the build for TI modems, with its two workarounds
    POLL_CALL_STATE      \* the build that polls calls until they end

\* What the phone sends: its strings and numbers are all there, an array holds as
\* many as its length says, and the radio is not asked for less than off.
Sendable(request, parcel) ==
    /\ request \in RequestCodes
    /\ parcel \in Seq(Values)
    /\ dispatchFunction(request, parcel).calls
    /\ request \in IntsRequests => parcel \in Seq(Int) /\ parcel[1] \in Nat
    /\ request = "RADIO_POWER" => parcel[2] \in Nat
    /\ request \in {"OEM_HOOK_RAW", "OEM_HOOK_STRINGS"} =>
          parcel = <<-1>> \/ (parcel[1] \in Nat /\ Len(parcel) = parcel[1] + 1)

ASSUME ReferenceAssumption ==
    /\ \A r \in Requests :
          r = [request |-> r.request, parcel |-> r.parcel] /\ Sendable(r.request, r.parcel)
    /\ MaxOpens \in Nat \ {0} /\ MaxTimers \in Nat \ {0}
    /\ USE_TI_COMMANDS \in BOOLEAN /\ POLL_CALL_STATE \in BOOLEAN

VARIABLES
    sState, s_closed,    \* the radio state; the channel was closed
    s_readerClosed,      \* of atchannel.c: the reader has ended
    opens,               \* sessions opened so far
    main,                \* where the main loop is
    reader,              \* of each session: the reader thread
    timers,              \* of each callback: how often it is scheduled
    work,                \* of each thread: the instructions it has left
    current, answer,     \* the request being carried out, and its completions
    calls,               \* s_incomingOrWaitingLine, s_repollCallsCount, s_expectAnswer
    overtaken            \* history: a reader was still in setRadioState when the
                         \* main loop had reset s_closed

vars == <<sState, s_closed, s_readerClosed, opens, main, reader, timers, work, current,
          answer, calls, overtaken>>

Sessions == 1..MaxOpens
E == 0                              \* the command thread; reader threads have their session
Threads == {E} \union Sessions
UNAVAILABLE == "UNAVAILABLE"  OFF == "OFF"  SIM_NOT_READY == "SIM_NOT_READY"
SIM_LOCKED_OR_ABSENT == "SIM_LOCKED_OR_ABSENT"  SIM_READY == "SIM_READY"
RadioStates == {UNAVAILABLE, OFF, SIM_NOT_READY, SIM_LOCKED_OR_ABSENT, SIM_READY}
Callbacks == {"initializeCallback", "pollSIMState", "onDataCallListChanged"}
REPOLL_CALLS_COUNT_MAX == 4
RIL_CARD_MAX_APPS == 8
NoRequest == [request |-> "none", parcel |-> <<>>]
NoAnswer == [frame |-> <<>>, count |-> 0]
NoCalls == [incoming |-> -1, repolls |-> 0, expect |-> FALSE]

Init ==
    /\ sState = UNAVAILABLE /\ s_closed = FALSE /\ s_readerClosed = FALSE
    /\ opens = 0 /\ main = "open"
    /\ reader = [r \in Sessions |-> "none"]
    /\ timers = [c \in Callbacks |-> 0]
    /\ work = [t \in Threads |-> <<>>]
    /\ current = NoRequest /\ answer = NoAnswer
    /\ calls = NoCalls
    /\ overtaken = FALSE

-----------------------------------------------------------------------------
(* Instructions, and the outcomes of AT commands. *)

At(fn, memo) == [op |-> "at", fn |-> fn, memo |-> memo]
Done(e, response, len) == [op |-> "complete", e |-> e, response |-> response, len |-> len]
Succeeds == Done(RIL_E_SUCCESS, Null, 0)
Fails == Done(RIL_E_GENERIC_FAILURE, Null, 0)
Set(s) == [op |-> "set", state |-> s]
Changed(old, look) == [op |-> "changed", old |-> old, look |-> look]
Later(callback) == [op |-> "later", callback |-> callback]
Event(event, response, len) ==
    [op |-> "event", event |-> event, response |-> response, len |-> len]
Call(fn) == [op |-> "call", fn |-> fn]
Closed == [op |-> "closed"]
Segfault == [op |-> "segfault"]

\* err < 0; a final response that is an error, with its CME number; success with
\* its intermediate lines.  A line is Null when it does not parse.
Lost == [err |-> TRUE, success |-> FALSE, cme |-> 0, lines |-> <<>>]
Refuses(cme) == [err |-> FALSE, success |-> FALSE, cme |-> cme, lines |-> <<>>]
Gives(lines) == [err |-> FALSE, success |-> TRUE, cme |-> 0, lines |-> lines]
Start == [err |-> TRUE, success |-> TRUE, cme |-> 0, lines |-> <<>>]
CME_SIM_NOT_INSERTED == 10

Failed(o) == o.err \/ ~o.success
Malformed(o) == Null \in {o.lines[i] : i \in DOMAIN o.lines}

-----------------------------------------------------------------------------
(* The handlers of requests.  m is what a handler remembers over an AT     *)
(* command, o the outcome of that command, or Start.                       *)

\* A command whose outcome makes no difference, and success.
Ignored(o) == IF o = Start THEN <<At("Ignored", Null)>> ELSE <<Succeeds>>

requestDial(o) == IF o = Start THEN <<At("requestDial", Null)>> ELSE <<Succeeds>>
requestHangup(o) == IF o = Start THEN <<At("requestHangup", Null)>> ELSE <<Succeeds>>

\* The command is sent, the request never completed.
SetNetworkSelectionAutomatic(o) ==
    IF o = Start THEN <<At("SetNetworkSelectionAutomatic", Null)>> ELSE <<>>

SeparateConnection(party, o) ==
    IF o = Start /\ party \in 1..9 THEN <<At("Ignored", Null)>> ELSE <<Fails>>

\* GET_IMSI, GET_IMEI and CANCEL_USSD: a numeric response of one line.
GetNumber(o) ==
    IF o = Start THEN <<At("GetNumber", Null)>>
    ELSE IF Failed(o) THEN <<Fails>> ELSE <<Done(RIL_E_SUCCESS, o.lines, ElementSize)>>

DeleteSmsOnSim(o) ==
    IF o = Start THEN <<At("DeleteSmsOnSim", Null)>>
    ELSE IF Failed(o) THEN <<Fails>> ELSE <<Succeeds>>

requestWriteSmsToSim(o) ==
    IF o = Start THEN <<At("requestWriteSmsToSim", Null)>>
    ELSE IF Failed(o) THEN <<Fails>> ELSE <<Succeeds>>

\* messageRef, ackPDU and errorCode stay zero.
requestSendSMS(o) ==
    IF o = Start THEN <<At("requestSendSMS", Null)>>
    ELSE IF Failed(o) THEN <<Fails>>
    ELSE <<Done(RIL_E_SUCCESS, <<<<0, Null, 0>>>>, ElementSize)>>

\* Success falls through to the error.
requestSMSAcknowledge(data, o) ==
    IF o # Start THEN <<Succeeds, Fails>>
    ELSE IF data[1] \in {0, 1} THEN <<At("requestSMSAcknowledge", data)>> ELSE <<Fails>>

requestEnterSimPin(len, o) ==
    IF o = Start /\ len \in {1, 2} THEN <<At("requestEnterSimPin", len)>>
    ELSE IF o = Start \/ Failed(o) THEN <<Done(RIL_E_PASSWORD_INCORRECT, Null, 0)>>
    ELSE <<Succeeds>>

\* sw1, sw2 and perhaps the SIM's answer
requestSIM_IO(o) ==
    IF o = Start THEN <<At("requestSIM_IO", Null)>>
    ELSE IF Failed(o) \/ Malformed(o) THEN <<Fails>>
    ELSE LET line == o.lines[1]
         IN  <<Done(RIL_E_SUCCESS, <<<<line[1], line[2], IF Len(line) > 2 THEN line[3] ELSE Null>>>>,
                    ElementSize)>>

\* A failed command is completed twice.
requestSignalStrength(o) ==
    IF o = Start THEN <<At("requestSignalStrength", Null)>>
    ELSE IF Failed(o) THEN <<Fails, Fails>>
    ELSE IF Malformed(o) THEN <<Fails>>
    ELSE <<Done(RIL_E_SUCCESS, o.lines[1], 2 * ElementSize)>>

\* Mutant: the length is not the size of an integer.
requestQueryNetworkSelectionMode_Size(o) ==
    IF o = Start THEN <<At("requestQueryNetworkSelectionMode", Null)>>
    ELSE IF Failed(o) \/ Malformed(o) THEN <<Fails>>
    ELSE <<Done(RIL_E_SUCCESS, o.lines[1], 1)>>
requestQueryNetworkSelectionMode(o) ==
    IF o = Start THEN <<At("requestQueryNetworkSelectionMode", Null)>>
    ELSE IF Failed(o) \/ Malformed(o) THEN <<Fails>>
    ELSE <<Done(RIL_E_SUCCESS, o.lines[1], ElementSize)>>

\* The number of values tells whether <n> comes first; five is the GPRS form.  An
\* error of the modem is not looked at: the line it lacks is a null pointer.
registration(line) ==
    CASE Len(line) = 1 -> <<line[1], -1, -1>>
      [] Len(line) = 2 -> <<line[2], -1, -1>>
      [] Len(line) = 3 -> line
      [] Len(line) \in {4, 5} -> Tail(line)
requestRegistrationState(o) ==
    IF o = Start THEN <<At("requestRegistrationState", Null)>>
    ELSE IF o.err THEN <<Fails>>
    ELSE IF ~o.success THEN <<Segfault>>
    ELSE IF Malformed(o) THEN <<Fails>>
    ELSE IF Len(o.lines[1]) > 5 THEN <<Fails>>
    ELSE LET response == registration(o.lines[1])
         IN  <<Done(RIL_E_SUCCESS, response, ElementSize * Len(response))>>

\* Three names, or none when not registered (0 here).
requestOperator(o) ==
    IF o = Start THEN <<At("requestOperator", Null)>>
    ELSE IF o.err \/ Malformed(o) \/ Len(o.lines) # 3 THEN <<Fails>>
    ELSE <<Done(RIL_E_SUCCESS, [i \in 1..3 |-> IF o.lines[i] = 0 THEN Null ELSE o.lines[i]],
                3 * ElementSize)>>

\* /dev/qmi gives the connection if it exists; else AT commands, of which the
\* last one decides.
requestSetupDataCall(m, o) ==
    LET connected == <<Done(RIL_E_SUCCESS, <<1, 2>>, 2 * ElementSize)>>
    IN  IF o = Start THEN <<At("requestSetupDataCall", "qmi")>>
        ELSE IF m = "qmi" /\ o = Lost THEN <<At("requestSetupDataCall", "ATD*99")>>
        ELSE IF Failed(o) THEN <<Fails>> ELSE connected

\* t is "request", or "callback" for onDataCallListChanged, whose answer is an event.
SendDataCallList(t, failed, response) ==
    LET r == IF failed THEN Null ELSE response
        len == IF failed THEN 0 ELSE ElementSize * Len(response)
    IN  IF t = "callback" THEN <<Event("DATA_CALL_LIST_CHANGED", r, len)>>
        ELSE IF failed THEN <<Fails>> ELSE <<Done(RIL_E_SUCCESS, r, len)>>

\* AT+CGACT? gives <<cid, active>>; AT+CGDCONT? gives <<cid, type, apn, address>>
\* of contexts that may not be among them.
Filled(contexts, lines) ==
    [i \in DOMAIN contexts |->
        LET of == {k \in DOMAIN lines : lines[k][1] = contexts[i][1]}
        IN  contexts[i] \o (IF of = {} THEN <<0, 0, 0>>
                            ELSE Tail(lines[CHOOSE k \in of : \A j \in of : j <= k]))]
requestOrSendDataCallList(t, contexts, o) ==
    IF o = Start THEN <<At("requestOrSendDataCallList", [t |-> t, contexts |-> Null])>>
    ELSE IF Failed(o) \/ Malformed(o) THEN SendDataCallList(t, TRUE, Null)
    ELSE IF contexts = Null
         THEN <<At("requestOrSendDataCallList", [t |-> t, contexts |-> o.lines])>>
    ELSE SendDataCallList(t, FALSE, Filled(contexts, o.lines))
requestDataCallList == requestOrSendDataCallList("request", Null, Start)
onDataCallListChanged == requestOrSendDataCallList("callback", Null, Start)

\* +CLCC lines <<index, stat>>: a line that does not parse or has an unknown stat
\* is skipped.
clccStateToRILState(state) == state \in 0..5
ACTIVE == 0  HOLDING == 1  INCOMING == 4  WAITING == 5
callFromCLCCLine(line) == line # Null /\ clccStateToRILState(line[2])
ValidCalls(o) ==
    LET valid[n \in 0..Len(o.lines)] ==
            IF n = 0 THEN <<>>
            ELSE IF callFromCLCCLine(o.lines[n]) THEN Append(valid[n - 1], o.lines[n])
            ELSE valid[n - 1]
    IN  valid[Len(o.lines)]
needRepoll(valid) ==
    IF POLL_CALL_STATE THEN valid # <<>>
    ELSE \E i \in DOMAIN valid : valid[i][2] \notin {ACTIVE, HOLDING}

\* The index of the last call that rings, and whether the call that rang before
\* is active though nobody answered it.
Ringing(valid) ==
    LET rings == {i \in DOMAIN valid : valid[i][2] \in {INCOMING, WAITING}}
    IN  IF rings = {} THEN -1 ELSE valid[CHOOSE i \in rings : \A j \in rings : j <= i][1]
ErroneousAnswer(previous, valid) ==
    /\ USE_TI_COMMANDS
    /\ previous >= 0 /\ Ringing(valid) < 0 /\ ~calls.expect
    /\ \E i \in DOMAIN valid : valid[i] = <<previous, ACTIVE>>
    /\ calls.repolls < REPOLL_CALLS_COUNT_MAX

requestGetCurrentCalls(previous, o) ==
    IF o = Start THEN <<At("requestGetCurrentCalls", calls.incoming)>>
    ELSE IF Failed(o) \/ ErroneousAnswer(previous, ValidCalls(o)) THEN <<Fails>>
    ELSE <<Done(RIL_E_SUCCESS, ValidCalls(o), ElementSize * Len(ValidCalls(o)))>>
         \o IF needRepoll(ValidCalls(o)) THEN <<Later("sendCallStateChanged")>> ELSE <<>>

\* The static variables of the workaround, after that function.
CallsAfterPoll(previous, o) ==
    IF Failed(o) THEN calls
    ELSE IF ErroneousAnswer(previous, ValidCalls(o))
         THEN [calls EXCEPT !.repolls = @ + 1]
    ELSE [incoming |-> Ringing(ValidCalls(o)), repolls |-> 0, expect |-> FALSE]

-----------------------------------------------------------------------------
(* The radio. *)

\* 1 if the radio is on, 0 if off, -1 on error; then what the caller does with it.
isRadioOn(caller, o) ==
    LET on == ~Failed(o) /\ ~Malformed(o) /\ o.lines = <<1>>
    IN  IF o = Start THEN <<At("isRadioOn", caller)>>
        ELSE IF caller = "initializeCallback"
             THEN IF on THEN <<Set(SIM_NOT_READY)>> ELSE <<>>
        ELSE IF on THEN <<Set(SIM_NOT_READY), Succeeds>> ELSE <<Fails>>

\* data[1] is 0 or greater; an AT+CFUN=1 that fails may have worked.
requestRadioPower(data, o) ==
    IF o = Start
    THEN IF (data[1] = 0 /\ sState # OFF) \/ (data[1] > 0 /\ sState = OFF)
         THEN <<At("requestRadioPower", data)>> ELSE <<Succeeds>>
    ELSE IF data[1] = 0
         THEN IF Failed(o) THEN <<Fails>> ELSE <<Set(OFF), Succeeds>>
    ELSE IF Failed(o) THEN isRadioOn("requestRadioPower", Start)
         ELSE <<Set(SIM_NOT_READY), Succeeds>>

\* The one application of the card, by the status of the SIM: type, state,
\* personalisation, aid, label, pin1_replaced, pin1, pin2.
AppStatus(status) ==
    CASE status = "NOT_READY" -> <<1, 1, 0, Null, Null, 0, 0, 0>>
      [] status = "READY" -> <<1, 5, 2, Null, Null, 0, 0, 0>>
      [] status = "PIN" -> <<1, 2, 0, Null, Null, 0, 1, 0>>
      [] status = "PUK" -> <<1, 3, 0, Null, Null, 0, 4, 0>>
      [] status = "NETWORK_PERSONALIZATION" -> <<1, 4, 3, Null, Null, 0, 1, 0>>
getCardStatus(status) ==
    IF status = "ABSENT"
    THEN [card |-> <<0, 0, RIL_CARD_MAX_APPS, RIL_CARD_MAX_APPS>>, applications |-> <<>>]
    ELSE [card |-> <<1, 0, 0, RIL_CARD_MAX_APPS>>, applications |-> <<AppStatus(status)>>]
SimStatuses == {"NOT_READY", "READY", "PIN", "PUK", "NETWORK_PERSONALIZATION", "ABSENT"}
ASSUME CardAssumption == \A status \in SimStatuses : <<getCardStatus(status)>> # Null

\* pollSIMState and GET_SIM_STATUS, once the status of the SIM is known.
\* Mutant: a SIM that is not ready is not asked again.
SimStatusKnown_AsksOnce(caller, status) ==
    IF caller = "getCardStatus"
    THEN <<Done(RIL_E_SUCCESS, <<getCardStatus(status)>>, ElementSize)>>
    ELSE CASE status = "NOT_READY" -> <<>>
           [] status = "READY" -> <<Set(SIM_READY)>>
           [] OTHER -> <<Set(SIM_LOCKED_OR_ABSENT)>>
SimStatusKnown(caller, status) ==
    IF caller = "getCardStatus"
    THEN <<Done(RIL_E_SUCCESS, <<getCardStatus(status)>>, ElementSize)>>
    ELSE CASE status = "NOT_READY" -> <<Later("pollSIMState")>>
           [] status = "READY" -> <<Set(SIM_READY)>>
           [] OTHER -> <<Set(SIM_LOCKED_OR_ABSENT)>>

\* The line of AT+CPIN? is the status; a lock it does not know counts as absent.
getSIMStatus(caller, o) ==
    IF o = Start
    THEN IF sState \in {OFF, UNAVAILABLE} THEN SimStatusKnown(caller, "NOT_READY")
         ELSE <<At("getSIMStatus", caller)>>
    ELSE SimStatusKnown(caller,
            IF o.err \/ (~o.success /\ o.cme # CME_SIM_NOT_INSERTED) THEN "NOT_READY"
            ELSE IF ~o.success THEN "ABSENT"
            ELSE IF Malformed(o) THEN "NOT_READY" ELSE o.lines[1])

pollSIMState ==
    IF sState # SIM_NOT_READY THEN <<>> ELSE getSIMStatus("pollSIMState", Start)
onRadioPowerOn ==
    (IF USE_TI_COMMANDS THEN <<At("Settings", Null)>> ELSE <<>>) \o <<Call("pollSIMState")>>
onSIMReady == <<At("Settings", Null)>>

\* The settings, whose outcomes are ignored but for one that is sent again in
\* another form, are one step.
initializeCallback ==
    <<Set(OFF), At("Settings", Null), Call("isRadioOn")>>

-----------------------------------------------------------------------------
(* The request, and what comes after each AT command. *)

NoCommandRequests == {"SET_PREFERRED_NETWORK_TYPE", "CDMA_SET_SUBSCRIPTION"}
IgnoredRequests == {"HANGUP_WAITING_OR_BACKGROUND", "HANGUP_FOREGROUND_RESUME_BACKGROUND",
    "SWITCH_WAITING_OR_HOLDING_AND_ACTIVE", "ANSWER", "CONFERENCE", "UDUB", "DTMF"}
AnsweringRequests == {"SWITCH_WAITING_OR_HOLDING_AND_ACTIVE", "ANSWER"}
PinRequests == {"ENTER_SIM_PIN", "ENTER_SIM_PUK", "ENTER_SIM_PIN2", "ENTER_SIM_PUK2",
    "CHANGE_SIM_PIN", "CHANGE_SIM_PIN2"}

onRequest(request, data, len) ==
    IF \/ sState = UNAVAILABLE /\ request # "GET_SIM_STATUS"
       \/ sState = OFF /\ request \notin {"RADIO_POWER", "GET_SIM_STATUS"}
    THEN <<Done(RIL_E_RADIO_NOT_AVAILABLE, Null, 0)>>
    ELSE CASE request = "GET_SIM_STATUS" -> getSIMStatus("getCardStatus", Start)
           [] request = "GET_CURRENT_CALLS" -> requestGetCurrentCalls(calls.incoming, Start)
           [] request = "DIAL" -> requestDial(Start)
           [] request = "HANGUP" -> requestHangup(Start)
           [] request \in IgnoredRequests -> Ignored(Start)
           [] request = "SEPARATE_CONNECTION" -> SeparateConnection(data[1], Start)
           [] request = "SIGNAL_STRENGTH" -> requestSignalStrength(Start)
           [] request \in {"REGISTRATION_STATE", "GPRS_REGISTRATION_STATE"} ->
                 requestRegistrationState(Start)
           [] request = "OPERATOR" -> requestOperator(Start)
           [] request = "RADIO_POWER" -> requestRadioPower(data, Start)
           [] request = "SEND_SMS" -> requestSendSMS(Start)
           [] request = "SETUP_DATA_CALL" -> requestSetupDataCall(Null, Start)
           [] request = "SMS_ACKNOWLEDGE" -> requestSMSAcknowledge(data, Start)
           [] request \in {"GET_IMSI", "GET_IMEI", "CANCEL_USSD"} -> GetNumber(Start)
           [] request = "SIM_IO" -> requestSIM_IO(Start)
           [] request = "SEND_USSD" -> <<Done(RIL_E_REQUEST_NOT_SUPPORTED, Null, 0)>>
           [] request = "SET_NETWORK_SELECTION_AUTOMATIC" -> SetNetworkSelectionAutomatic(Start)
           [] request = "DATA_CALL_LIST" -> requestDataCallList
           [] request = "QUERY_NETWORK_SELECTION_MODE" -> requestQueryNetworkSelectionMode(Start)
           [] request \in {"OEM_HOOK_RAW", "OEM_HOOK_STRINGS"} ->
                 <<Done(RIL_E_SUCCESS, data, ElementSize * len)>>
           [] request = "WRITE_SMS_TO_SIM" -> requestWriteSmsToSim(Start)
           [] request = "DELETE_SMS_ON_SIM" -> DeleteSmsOnSim(Start)
           [] request \in PinRequests -> requestEnterSimPin(len, Start)
           [] request \in NoCommandRequests -> <<Succeeds>>
           [] OTHER -> <<Done(RIL_E_REQUEST_NOT_SUPPORTED, Null, 0)>>

AfterAt(fn, m, o) ==
    CASE fn = "Settings" -> <<>>
      [] fn = "Ignored" -> Ignored(o)
      [] fn = "requestDial" -> requestDial(o)
      [] fn = "requestHangup" -> requestHangup(o)
      [] fn = "SetNetworkSelectionAutomatic" -> SetNetworkSelectionAutomatic(o)
      [] fn = "GetNumber" -> GetNumber(o)
      [] fn = "DeleteSmsOnSim" -> DeleteSmsOnSim(o)
      [] fn = "requestWriteSmsToSim" -> requestWriteSmsToSim(o)
      [] fn = "requestSendSMS" -> requestSendSMS(o)
      [] fn = "requestSMSAcknowledge" -> requestSMSAcknowledge(m, o)
      [] fn = "requestEnterSimPin" -> requestEnterSimPin(m, o)
      [] fn = "requestSIM_IO" -> requestSIM_IO(o)
      [] fn = "requestSignalStrength" -> requestSignalStrength(o)
      [] fn = "requestQueryNetworkSelectionMode" -> requestQueryNetworkSelectionMode(o)
      [] fn = "requestRegistrationState" -> requestRegistrationState(o)
      [] fn = "requestOperator" -> requestOperator(o)
      [] fn = "requestSetupDataCall" -> requestSetupDataCall(m, o)
      [] fn = "requestOrSendDataCallList" -> requestOrSendDataCallList(m.t, m.contexts, o)
      [] fn = "requestGetCurrentCalls" -> requestGetCurrentCalls(m, o)
      [] fn = "isRadioOn" -> isRadioOn(m, o)
      [] fn = "requestRadioPower" -> requestRadioPower(m, o)
      [] fn = "getSIMStatus" -> getSIMStatus(m, o)

\* The lines the modem may give each command.
Lines(fn, m) ==
    CASE fn = "GetNumber" -> {<<7>>}
      [] fn = "requestQueryNetworkSelectionMode" -> {<<<<7>>>>, <<Null>>}
      [] fn = "requestSignalStrength" -> {<<<<9, 99>>>>, <<Null>>}
      [] fn = "requestSIM_IO" -> {<<<<144, 0>>>>, <<<<144, 0, 7>>>>, <<Null>>}
      [] fn = "requestRegistrationState" -> {<<<<1>>>>, <<<<2, 1>>>>, <<<<1, 10, 11>>>>,
            <<<<2, 1, 10, 11>>>>, <<<<2, 1, 10, 11, 3>>>>, <<<<2, 1, 10, 11, 3, 4>>>>, <<Null>>}
      [] fn = "requestOperator" -> {<<5, 6, 7>>, <<0, 0, 0>>, <<0>>, <<5, Null, 7>>}
      [] fn = "requestOrSendDataCallList" ->
            IF m.contexts = Null THEN {<<>>, <<<<1, 1>>>>, <<<<1, 0>>, <<2, 1>>>>, <<Null>>}
            ELSE {<<>>, <<<<1, 5, 6, 7>>>>, <<<<3, 5, 6, 7>>, <<2, 5, 6, 7>>>>, <<Null>>}
      [] fn = "requestGetCurrentCalls" ->
            {<<>>, <<<<1, INCOMING>>>>, <<<<1, ACTIVE>>>>, <<<<2, ACTIVE>>, <<1, WAITING>>>>,
             <<Null, <<1, ACTIVE>>>>, <<<<1, 6>>>>}
      [] fn = "isRadioOn" -> {<<0>>, <<1>>, <<Null>>}
      [] fn = "getSIMStatus" -> {<<"READY">>, <<"PIN">>, <<"PUK">>,
            <<"NETWORK_PERSONALIZATION">>, <<"ABSENT">>, <<Null>>}
      [] OTHER -> {<<>>}

\* An AT command on a thread: lost when the channel is closed or when the thread
\* is the one that reads the answers; else as the modem likes.  For /dev/qmi, Lost
\* is a device that does not exist.
Outcomes(t, fn, m) ==
    IF s_readerClosed /\ ~(fn = "requestSetupDataCall" /\ m = "qmi") THEN {Lost}
    ELSE IF t = opens /\ t # E THEN {Lost}
    ELSE {Lost, Refuses(0)} \union {Gives(lines) : lines \in Lines(fn, m)}
         \union IF fn = "getSIMStatus" THEN {Refuses(CME_SIM_NOT_INSERTED)} ELSE {}

-----------------------------------------------------------------------------
(* Steps of the command thread and of the reader threads. *)

Next_(t) == Head(work[t])
Doing(t, op) == work[t] # <<>> /\ Next_(t).op = op
Then(t, instructions) == work' = [work EXCEPT ![t] = instructions \o Tail(@)]

AtCommand(t) ==
    /\ Doing(t, "at")
    /\ LET fn == Next_(t).fn
           m == Next_(t).memo
       IN  \E o \in Outcomes(t, fn, m) :
            /\ Then(t, AfterAt(fn, m, o))
            /\ calls' = CASE fn = "requestGetCurrentCalls" -> CallsAfterPoll(m, o)
                          [] fn = "Ignored" /\ current.request \in AnsweringRequests ->
                                [calls EXCEPT !.expect = USE_TI_COMMANDS]
                          [] OTHER -> calls
    /\ UNCHANGED <<sState, s_closed, s_readerClosed, opens, main, reader, timers, current,
                   answer, overtaken>>

\* The first completion answers the request; libril drops the others, the token
\* being gone.
Complete(t) ==
    /\ Doing(t, "complete")
    /\ Then(t, <<>>)
    /\ LET i == Next_(t)
       IN  answer' = IF answer.count = 0
                     THEN [frame |-> AnswerFrame(current.request, i.e, i.response, i.len), count |-> 1]
                     ELSE [answer EXCEPT !.count = 2]
    /\ UNCHANGED <<sState, s_closed, s_readerClosed, opens, main, reader, timers, current, calls,
                   overtaken>>

\* Mutant: the state asked for is set on a closed channel too.
NewState_Asked(state) == state
NewState(state) == IF s_closed THEN UNAVAILABLE ELSE state

\* setRadioState, the part under s_state_mutex.
setRadioState(t) ==
    /\ Doing(t, "set")
    /\ sState' = NewState(Next_(t).state)
    /\ Then(t, <<Changed(sState, "differs")>>)
    /\ overtaken' = (overtaken \/ (t # E /\ ~s_closed))
    /\ UNCHANGED <<s_closed, s_readerClosed, opens, main, reader, timers, current, answer, calls>>

\* The rest of it reads sState again, three times.  The event for the phone,
\* after the first, has no payload.
radioStateChanged(t) ==
    /\ Doing(t, "changed")
    /\ LET i == Next_(t)
       IN  Then(t, CASE i.look = "differs" ->
                          IF sState = i.old THEN <<>>
                          ELSE <<Changed(i.old, "ready")>>
                     [] i.look = "ready" ->
                          IF sState = SIM_READY THEN onSIMReady ELSE <<Changed(i.old, "notReady")>>
                     [] i.look = "notReady" ->
                          IF sState = SIM_NOT_READY THEN onRadioPowerOn ELSE <<>>)
    /\ overtaken' = (overtaken \/ (t # E /\ sState # UNAVAILABLE))
    /\ UNCHANGED <<sState, s_closed, s_readerClosed, opens, main, reader, timers, current, answer,
                   calls>>

Scheduled(callback) ==
    [timers EXCEPT ![callback] = IF @ < MaxTimers THEN @ + 1 ELSE @]

\* sendCallStateChanged only reports an event when its time has come.
RIL_requestTimedCallback(t) ==
    /\ Doing(t, "later")
    /\ timers' = IF Next_(t).callback \in Callbacks THEN Scheduled(Next_(t).callback) ELSE timers
    /\ Then(t, <<>>)
    /\ UNCHANGED <<sState, s_closed, s_readerClosed, opens, main, reader, current, answer, calls,
                   overtaken>>

\* An event for the phone, or a call that looks at the state when it is made.
EventOrCall(t) ==
    /\ Doing(t, "event") \/ Doing(t, "call")
    /\ Then(t, IF Doing(t, "event") THEN <<>>
               ELSE IF Next_(t).fn = "isRadioOn" THEN isRadioOn("initializeCallback", Start)
               ELSE pollSIMState)
    /\ UNCHANGED <<sState, s_closed, s_readerClosed, opens, main, reader, timers, current, answer,
                   calls, overtaken>>

\* The null pointer of requestRegistrationState ends the daemon; init starts it again.
Respawn(t) ==
    /\ Doing(t, "segfault")
    /\ sState' = UNAVAILABLE /\ s_closed' = FALSE /\ s_readerClosed' = FALSE
    /\ opens' = 0 /\ main' = "open"
    /\ reader' = [r \in Sessions |-> "none"]
    /\ timers' = [c \in Callbacks |-> 0]
    /\ work' = [u \in Threads |-> <<>>]
    /\ current' = NoRequest /\ answer' = NoAnswer
    /\ calls' = NoCalls /\ overtaken' = FALSE

Step(t) ==
    \/ AtCommand(t) \/ Complete(t) \/ setRadioState(t) \/ radioStateChanged(t)
    \/ RIL_requestTimedCallback(t) \/ EventOrCall(t) \/ Respawn(t)

-----------------------------------------------------------------------------
(* The command thread takes a request or a callback when it has nothing     *)
(* else to do; onRequest returns when its instructions are used up.         *)

Request(r) ==
    LET d == dispatchFunction(r.request, r.parcel)
    IN  /\ opens < 2 \/ r.request \in LateRequests
        /\ work[E] = <<>> /\ current = NoRequest
        /\ current' = r
        /\ work' = [work EXCEPT ![E] = onRequest(r.request, d.data, d.len)]
        /\ calls' = IF USE_TI_COMMANDS /\ Doing(E, "at")' /\ Head(work'[E]).fn = "requestGetCurrentCalls"
                    THEN [calls EXCEPT !.incoming = -1] ELSE calls
        /\ UNCHANGED <<sState, s_closed, s_readerClosed, opens, main, reader, timers, answer, overtaken>>

Return ==
    /\ work[E] = <<>> /\ current # NoRequest
    /\ current' = NoRequest /\ answer' = NoAnswer
    /\ UNCHANGED <<sState, s_closed, s_readerClosed, opens, main, reader, timers, work, calls, overtaken>>

Callback(c) ==
    /\ work[E] = <<>> /\ current = NoRequest
    /\ timers[c] > 0
    /\ timers' = [timers EXCEPT ![c] = @ - 1]
    /\ work' = [work EXCEPT ![E] =
                    CASE c = "initializeCallback" -> initializeCallback
                      [] c = "pollSIMState" -> pollSIMState
                      [] c = "onDataCallListChanged" -> onDataCallListChanged]
    /\ UNCHANGED <<sState, s_closed, s_readerClosed, opens, main, reader, current, answer, calls, overtaken>>

\* onUnsolicited: the lines that schedule a callback (others report an event,
\* which changes nothing here): +CGEV, and with the workaround also rings,
\* registration and the error that stands for +CGEV.
onUnsolicited(r) ==
    /\ opens < 2 \/ "DATA_CALL_LIST" \in LateRequests
    /\ reader[r] = "reading" /\ sState # UNAVAILABLE
    /\ timers' = Scheduled("onDataCallListChanged")
    /\ UNCHANGED <<sState, s_closed, s_readerClosed, opens, main, reader, work, current, answer, calls,
                   overtaken>>

\* The channel closes: the reader of atchannel.c marks it, then calls
\* onATReaderClosed, whose at_close comes before s_closed.
ReaderEnds(r) ==
    /\ reader[r] = "reading" /\ r < MaxOpens
    /\ reader' = [reader EXCEPT ![r] = "ended"]
    /\ s_readerClosed' = TRUE
    /\ work' = [work EXCEPT ![r] = <<Closed, Set(UNAVAILABLE)>>]
    /\ UNCHANGED <<sState, s_closed, opens, main, timers, current, answer, calls, overtaken>>

onATReaderClosed(r) ==
    /\ Doing(r, "closed")
    /\ s_closed' = TRUE
    /\ Then(r, <<>>)
    /\ UNCHANGED <<sState, s_readerClosed, opens, main, reader, timers, current, answer, calls, overtaken>>

\* mainLoop: s_closed is reset, the channel opened with its reader, the radio to
\* be initialized; a second of sleep; then the wait for s_closed.
mainLoop ==
    \/ /\ main = "open" /\ opens < MaxOpens
       /\ main' = "at_open" /\ s_closed' = FALSE
       /\ UNCHANGED <<s_readerClosed, opens, reader, timers>>
    \/ /\ main = "at_open"
       /\ main' = "initialize" /\ s_readerClosed' = FALSE
       /\ opens' = opens + 1
       /\ reader' = [reader EXCEPT ![opens + 1] = "reading"]
       /\ UNCHANGED <<s_closed, timers>>
    \/ /\ main = "initialize"
       /\ main' = "waitForClose" /\ timers' = Scheduled("initializeCallback")
       /\ UNCHANGED <<s_closed, s_readerClosed, opens, reader>>
    \/ /\ main = "waitForClose" /\ s_closed
       /\ main' = "open"
       /\ UNCHANGED <<s_closed, s_readerClosed, opens, reader, timers>>

MainLoop == mainLoop /\ UNCHANGED <<sState, work, current, answer, calls, overtaken>>

Next ==
    \/ \E t \in Threads : Step(t)
    \/ \E r \in Requests : Request(r)
    \/ Return
    \/ \E c \in Callbacks : Callback(c)
    \/ \E r \in Sessions : onUnsolicited(r) \/ ReaderEnds(r) \/ onATReaderClosed(r)
    \/ MainLoop

Spec == Init /\ [][Next]_vars
-----------------------------------------------------------------------------
(* Properties. *)

TypeOK ==
    /\ sState \in RadioStates
    /\ {s_closed, s_readerClosed, overtaken} \subseteq BOOLEAN
    /\ opens \in 0..MaxOpens
    /\ main \in {"open", "at_open", "initialize", "waitForClose"}
    /\ reader \in [Sessions -> {"none", "reading", "ended"}]
    /\ timers \in [Callbacks -> 0..MaxTimers]
    /\ DOMAIN work = Threads
    /\ current \in Requests \union {NoRequest}
    /\ answer.count \in 0..2

Quiet == \A t \in Threads : work[t] = <<>>

\* A request is completed by the time onRequest returns, whatever the modem
\* answered to each of its commands and whenever the channel closed; automatic
\* network selection alone is not.
AnsweredOnReturn ==
    (work[E] = <<>> /\ current # NoRequest) =>
        (answer.count > 0 \/ current.request = "SET_NETWORK_SELECTION_AUTOMATIC")

\* No payload of a handler is refused by the response function the tables of
\* libril have for its request or event: the two files agree on the size of each.
NoInvalidResponse ==
    /\ answer.frame # <<>> => answer.frame[2] # RIL_ERRNO_INVALID_RESPONSE
    /\ \A t \in Threads : Doing(t, "event") =>
        LET i == Next_(t) IN unsolResponseFunction(i.event, i.response, i.len).ret = 0

\* What is sent to the two OEM hooks comes back through dispatch, echo and
\* response; a null array comes back as no payload (strings) or length 0 (raw).
EchoReturned ==
    (current.request \in {"OEM_HOOK_RAW", "OEM_HOOK_STRINGS"} /\ answer.frame # <<>>
        /\ answer.frame[2] = RIL_E_SUCCESS)
    => SubSeq(answer.frame, 3, Len(answer.frame)) =
         IF current.parcel # <<-1>> THEN current.parcel
         ELSE IF current.request = "OEM_HOOK_RAW" THEN <<0>> ELSE <<>>

\* The workaround hides a call that was answered erroneously from one poll at
\* most: the line that rang is forgotten with it.  REPOLL_CALLS_COUNT_MAX is out
\* of reach.
HiddenOnce == calls.repolls <= 1

\* A SIM that is not ready is polled: when no thread has anything left to do, the
\* next poll is scheduled, through power cycles, resets and closed channels.
PollingAlive ==
    (Quiet /\ sState = SIM_NOT_READY /\ timers["initializeCallback"] = 0)
        => timers["pollSIMState"] > 0

\* On a channel that is open and initialized the radio is not UNAVAILABLE, unless
\* the reader of an earlier session set that after s_closed was reset.
UnavailableMeansClosed ==
    (Quiet /\ sState = UNAVAILABLE /\ main = "waitForClose" /\ timers["initializeCallback"] = 0)
        => (s_closed \/ overtaken)

\* The thread that reads the answers of the open channel never sends a command
\* and waits for itself: a reader ends up in onSIMReady or onRadioPowerOn only
\* after the main loop has left its session, when the state changed behind its back.
OwnReaderNeverWaits ==
    \A r \in Sessions : Doing(r, "at") => (overtaken /\ (r < opens \/ main = "at_open"))

\* What is left of an earlier session of the channel neither makes the radio
\* UNAVAILABLE for the next one nor waits for itself, but for the overlap that
\* overtaken records.
SessionsApart == UnavailableMeansClosed /\ OwnReaderNeverWaits

\* A radio that was switched and confirmed is in a state that fits, unless the
\* reader of an earlier session interfered.
PowerConfirmed ==
    (current.request = "RADIO_POWER" /\ answer.frame # <<>> /\ answer.frame[2] = RIL_E_SUCCESS)
    => \/ overtaken
       \/ IF current.parcel[2] = 0 THEN sState \in {OFF, UNAVAILABLE} ELSE sState # OFF

\* What a request is answered: an answer before onRequest returns, of the size the
\* tables expect, and true to what was sent and to what the radio has become.
AnswersRight ==
    /\ TypeOK
    /\ AnsweredOnReturn /\ NoInvalidResponse
    /\ EchoReturned /\ HiddenOnce /\ PowerConfirmed

=============================================================================
