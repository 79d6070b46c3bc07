------------------------------ MODULE RilExchange ------------------------------
(***************************************************************************)
(* One command at a time between the phone process and the vendor library, *)
(* as libril carries it: the parcel of a command is dispatched, the library *)
(* completes the request, and the answer is marshalled back; events are    *)
(* marshalled as they come.  Threads and sockets are in Ril.               *)
(*                                                                         *)
(* The vendor library is any library written to ril.h: it keeps the        *)
(* broadcast configuration or CDMA message it was given last, and returns  *)
(* it.                                                                     *)
(***************************************************************************)
EXTENDS RilMarshal

CONSTANTS
    Parcels,         \* the parcels of each request the phone may send
    Answers,         \* the (e, response, len) the library may give each request
    Events           \* the (response, len) the library may report with each event

\* Where the code reads a string, which may be null.
StringsIn(request) ==
    CASE request \in StringRequests \union {"DIAL"} -> {1}
      [] request \in StringsRequests -> Nat \ {0, 1}
      [] request \in CallForwardRequests -> {5}
      [] request = "SIM_IO" -> {3, 7, 8}
      [] request = "WRITE_SMS_TO_SIM" -> {2, 3}
      [] OTHER -> {}

\* A parcel may be cut short, but has no more in it than its counts say.
ParcelOf(request, p) ==
    /\ p \in Seq(Values)
    /\ \A i \in DOMAIN p : p[i] = Null => i \in StringsIn(request)
    /\ request = "GSM_SET_BROADCAST_SMS_CONFIG" /\ p # <<>> => Len(p) <= 1 + 5 * p[1]
    /\ request = "CDMA_SET_BROADCAST_SMS_CONFIG" /\ p # <<>> => Len(p) <= 1 + 3 * p[1]
    /\ request = "CDMA_SEND_SMS" => Len(p) <= ReadMessage(p, TRUE).end

\* What ril.h has the library answer with: len bytes of elements, or one structure.
Elements(S, response, len) ==
    response \in Seq(S) /\ len \in Nat /\ len \div ElementSize <= Len(response)
Structure(response) == response \in Seq(Seq(Values)) /\ response # <<>>
CardStatus(response) ==
    response # <<>> /\ response[1].card \in Seq(Values) /\ response[1].applications \in Seq(Seq(Values))

CdmaMessage(m) ==
    /\ {m.head, m.digits, m.sub, m.subDigits, m.bearer} \subseteq Seq(Values)
    /\ {m.n, m.m, m.bearerLen} \subseteq Int
    /\ Kept(m.n, AddressMax) <= Len(m.digits) /\ Kept(m.m, SubaddressMax) <= Len(m.subDigits)
    /\ Kept(m.bearerLen, BearerMax) <= Len(m.bearer)

AnswerOf(request, response, len) ==
    CASE request \in IntsResponses \union StringsResponses \union {"SIGNAL_STRENGTH", "OEM_HOOK_RAW"} ->
            Elements(Values, response, len)
      [] request \in StringResponses -> response \in Seq(Values) /\ response # <<>>
      [] request \in {"GET_CURRENT_CALLS", "QUERY_CALL_FORWARD_STATUS", "DATA_CALL_LIST",
                      "GET_NEIGHBORING_CELL_IDS"} -> Elements(Seq(Values), response, len)
      [] request \in SMSResponses \union {"SIM_IO"} -> Structure(response)
      [] request = "GET_SIM_STATUS" -> CardStatus(response)
      [] OTHER -> TRUE

EventOf(event, response, len) ==
    CASE event \in IntsEvents \union {"ON_USSD", "SIGNAL_STRENGTH", "OEM_HOOK_RAW"} ->
            Elements(Values, response, len)
      [] event \in StringEvents -> response \in Seq(Values) /\ response # <<>>
      [] event = "DATA_CALL_LIST_CHANGED" -> Elements(Seq(Values), response, len)
      [] event \in {"SUPP_SVC_NOTIFICATION", "CALL_RING", "CDMA_CALL_WAITING"} -> Structure(response)
      [] event = "CDMA_INFO_REC" ->
            /\ response # <<>> /\ response[1] \in Seq(Range(response[1]))
            /\ \A record \in Range(response[1]) : record.values \in Seq(Values)
      [] event = "RESPONSE_CDMA_NEW_SMS" -> response # <<>> /\ CdmaMessage(response[1])
      [] OTHER -> TRUE

ASSUME ExchangeAssumption ==
    /\ \A request \in RequestCodes :
        /\ \A p \in Parcels[request] : ParcelOf(request, p)
        /\ \A a \in Answers[request] :
            a.e \in Nat /\ (a.response # Null => AnswerOf(request, a.response, a.len))
    /\ \A event \in UnsolCodes : \A r \in Events[event] :
            IF r.response = Null THEN r.len = 0 ELSE EventOf(event, r.response, r.len)

VARIABLES
    command,         \* the command being carried out: [request, parcel]
    call,            \* the call of onRequest not yet completed, or Refused
    store,           \* the configuration or message the library was given last
    sent             \* the frame written last, <<>> after a command

exchangeVars == <<command, call, store, sent>>

Idle == [request |-> "none", parcel |-> <<>>]
NothingStored == [kind |-> "none", data |-> Null, len |-> 0, parcel |-> <<>>]

ExchangeInit ==
    /\ command = Idle
    /\ call = Refused
    /\ store = NothingStored
    /\ sent = <<>>

\* What a request gives the library or asks of it.
Writing == [GSM_SET_BROADCAST_SMS_CONFIG |-> "gsm", CDMA_SET_BROADCAST_SMS_CONFIG |-> "cdma",
            CDMA_SEND_SMS |-> "sms"]
Reading == [GSM_GET_BROADCAST_SMS_CONFIG |-> "gsm", CDMA_GET_BROADCAST_SMS_CONFIG |-> "cdma"]

\* processCommandBuffer and the dispatch function.  A refused command is dropped.
processCommandBuffer(request, parcel) ==
    /\ ~call.calls
    /\ call' = dispatchFunction(request, parcel)
    /\ command' = IF call'.calls THEN [request |-> request, parcel |-> parcel] ELSE Idle
    /\ sent' = <<>>
    /\ store' = IF call'.calls /\ request \in DOMAIN Writing
                THEN [kind |-> Writing[request], data |-> call'.data, len |-> call'.len,
                      parcel |-> parcel]
                ELSE store

RIL_onRequestComplete(e, response, len) ==
    /\ call.calls
    /\ sent' = AnswerFrame(command.request, e, response, len)
    /\ call' = Refused
    /\ command' = Idle
    /\ UNCHANGED store

\* What the library gives back of what it was given.
CompleteFromStore ==
    /\ call.calls /\ command.request \in DOMAIN Reading
    /\ IF store.kind = Reading[command.request]
       THEN RIL_onRequestComplete(RIL_E_SUCCESS, store.data, ElementSize * store.len)
       ELSE RIL_onRequestComplete(RIL_E_GENERIC_FAILURE, Null, 0)

CompleteAnyhow ==
    /\ call.calls /\ command.request \notin DOMAIN Reading
    /\ \E a \in Answers[command.request] : RIL_onRequestComplete(a.e, a.response, a.len)

\* An event is written only when its response function succeeds; two events get
\* one more value, the radio state or the time.
More(event) == IF event \in {"RESPONSE_RADIO_STATE_CHANGED", "NITZ_TIME_RECEIVED"} THEN <<0>> ELSE <<>>
RIL_onUnsolicitedResponse(event, response, len) ==
    LET r == unsolResponseFunction(event, response, len)
    IN  /\ ~call.calls
        /\ r.ret = 0
        /\ sent' = <<RESPONSE_UNSOLICITED, event>> \o r.out \o More(event)
        /\ UNCHANGED <<command, call, store>>

\* The network delivers the message that was sent.
DeliverSms ==
    /\ store.kind = "sms"
    /\ RIL_onUnsolicitedResponse("RESPONSE_CDMA_NEW_SMS", <<store.data>>, ElementSize)

Report ==
    \E event \in UnsolCodes : \E r \in Events[event] :
        RIL_onUnsolicitedResponse(event, r.response, r.len)

Send ==
    \E request \in RequestCodes : \E parcel \in Parcels[request] :
        processCommandBuffer(request, parcel)

ExchangeNext == Send \/ CompleteFromStore \/ CompleteAnyhow \/ DeliverSms \/ Report

ExchangeSpec == ExchangeInit /\ [][ExchangeNext]_exchangeVars

-----------------------------------------------------------------------------
(* Properties. *)

ExchangeTypeOK ==
    /\ command.request \in RequestCodes \union {"none"}
    /\ call.calls \in BOOLEAN
    /\ store.kind \in {"none", "gsm", "cdma", "sms"}
    /\ \A i \in DOMAIN sent : i # 2 => sent[i] \in Values

\* The numbers among the fields of a structure: a string may be null, they may not.
Numbers(request, data) ==
    CASE request \in IntsRequests -> Range(data)
      [] request \in CallForwardRequests -> {data[i] : i \in {1, 2, 3, 4, 6}}
      [] request = "DIAL" -> {data[2]}
      [] request = "SIM_IO" -> {data[i] : i \in {1, 2, 4, 5, 6}}
      [] request = "WRITE_SMS_TO_SIM" -> {data[1]}
      [] request = "CDMA_SMS_ACKNOWLEDGE" -> Range(data)
      [] request \in {"GSM_SET_BROADCAST_SMS_CONFIG", "CDMA_SET_BROADCAST_SMS_CONFIG"} ->
            UNION {Range(data[i]) : i \in DOMAIN data}
      [] request = "CDMA_SEND_SMS" -> UNION {Range(data.head), Range(data.digits),
            Range(data.sub), Range(data.subDigits), Range(data.bearer)}
      [] OTHER -> {}

\* A command the library is called with was read whole: a parcel that ends too
\* early never leaves a number of the structure at what an earlier read left
\* (the status of one late read stands for all the reads before it).
NoStaleField == call.calls => Null \notin Numbers(command.request, call.data)

\* An answer whose payload could not be marshalled carries the error alone: the
\* rewind to errorOffset leaves nothing of the payload behind it.
ErrorCarriesNoPayload ==
    (Len(sent) > 1 /\ sent[1] = RESPONSE_SOLICITED /\ sent[2] = RIL_ERRNO_INVALID_RESPONSE)
        => Len(sent) = 2

\* Both ways: nothing unread reaches the library, nothing half written the phone.
Marshalled == ExchangeTypeOK /\ NoStaleField /\ ErrorCarriesNoPayload

\* A broadcast configuration reads back as it was set, over four functions of
\* two shapes, up to the byte that holds "selected".
Configured(width, p) ==
    [i \in DOMAIN p |-> IF i > 1 /\ (i - 1) % width = 0 THEN byte(p[i]) ELSE p[i]]
ConfigReadsBack ==
    [][(CompleteFromStore /\ store.kind = Reading[command.request]) =>
        SubSeq(sent', 3, Len(sent')) = Configured(IF store.kind = "gsm" THEN 5 ELSE 3, store.parcel)
      ]_exchangeVars

\* A CDMA message sent and delivered back has the parcel it was sent with, up to
\* the bytes that hold its digits and counts: the reader in dispatchCdmaSms and the
\* writer in responseCdmaSms agree on every field and on where each array ends.
SmsReadsBack ==
    [][DeliverSms =>
        sent' = <<RESPONSE_UNSOLICITED, "RESPONSE_CDMA_NEW_SMS">> \o Octets(store.parcel, TRUE)
      ]_exchangeVars

\* What the library is given and gives back reaches the phone as it was sent.
ReadsBack == ConfigReadsBack /\ SmsReadsBack

=============================================================================
