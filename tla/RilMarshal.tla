----------------------------- MODULE RilMarshal ------------------------------
(***************************************************************************)
(* What libril reads from the parcel of a request and writes into the      *)
(* parcel of a response (the dispatchXxx and responseXxx functions and the *)
(* two command tables of ril.cpp).                                         *)
(*                                                                         *)
(* A parcel is the sequence of its values; strings and bytes are numbers   *)
(* (a string of length 0 is 0), a null string is Null.  A parcel that ends *)
(* too early is a shorter sequence: a read past its end fails, and so does *)
(* every later one.  A failed read leaves the C variable as it was, which  *)
(* is Null here.                                                           *)
(***************************************************************************)
EXTENDS Integers, Sequences, SequencesExt

CONSTANTS
    Null,            \* a null pointer, and a value that was not read
    AddressMax,      \* RIL_CDMA_SMS_ADDRESS_MAX, 36
    SubaddressMax,   \* RIL_CDMA_SMS_SUBADDRESS_MAX, 36
    BearerMax        \* RIL_CDMA_SMS_BEARER_DATA_MAX, 255

\* What a parcel holds.
Values == Int \union {Null}

ASSUME MarshalAssumption ==
    /\ Null \notin Int
    /\ Null \notin Seq(Values) /\ Null \notin Seq(Seq(Values))
    /\ AddressMax \in Nat /\ SubaddressMax \in Nat /\ BearerMax \in Nat

least(a, b) == IF a < b THEN a ELSE b
byte(n) == n % 256

\* The i-th value of a parcel, Null past its end.
Read(p, i) == IF i \in DOMAIN p THEN p[i] ELSE Null
\* The n values after the first i, Null past the end.
ReadMany(p, i, n) == [k \in 1..n |-> Read(p, i + k)]
\* The same as groups of w values each.
ReadGroups(p, i, n, w) == [k \in 1..n |-> ReadMany(p, i + (k - 1) * w, w)]

-----------------------------------------------------------------------------
(* Requests.  A dispatch function refuses the parcel (invalidCommandBlock: *)
(* the request is then never answered) or calls onRequest with data and    *)
(* datalen, in elements; a structure has one.                              *)

Refused == [calls |-> FALSE, data |-> Null, len |-> 0]
Calls(data, len) == [calls |-> TRUE, data |-> data, len |-> len]

dispatchVoid(p) == Calls(Null, 0)

\* No status is checked: without a string the callee gets a null pointer.
dispatchString(p) == Calls(<<Read(p, 1)>>, 1)

dispatchStrings(p) ==
    IF Len(p) < 1 THEN Refused
    ELSE IF p[1] = -1 THEN Calls(Null, 0)
    ELSE Calls(ReadMany(p, 1, p[1]), p[1])

\* Mutant: the status of the last read is not tested.
dispatchInts_Unchecked(p) ==
    IF Len(p) < 1 \/ Read(p, 1) = 0 THEN Refused
    ELSE Calls(ReadMany(p, 1, p[1]), p[1])
dispatchInts(p) ==
    IF Len(p) < 1 \/ Read(p, 1) = 0 THEN Refused
    ELSE IF Len(p) < 1 + p[1] THEN Refused
    ELSE Calls(ReadMany(p, 1, p[1]), p[1])

\* status, pdu, smsc
dispatchSmsWrite(p) ==
    IF Len(p) < 1 \/ Read(p, 2) = Null THEN Refused
    ELSE Calls(ReadMany(p, 0, 3), 1)

\* address, clir
dispatchDial(p) ==
    IF Len(p) < 2 \/ Read(p, 1) = Null THEN Refused
    ELSE Calls(ReadMany(p, 0, 2), 1)

\* command, fileid, path, p1, p2, p3, data, pin2: the status is that of p3.
dispatchSIM_IO(p) ==
    IF Len(p) < 6 THEN Refused ELSE Calls(ReadMany(p, 0, 8), 1)

\* status, reason, serviceClass, toa, number (an empty one is null), timeSeconds
dispatchCallForward(p) ==
    IF Len(p) < 6 THEN Refused
    ELSE Calls([ReadMany(p, 0, 6) EXCEPT ![5] = IF @ = 0 THEN Null ELSE @], 1)

\* A length of -1 is a null array, yet the pointer that readInplace(0) returns
\* is passed on; a parcel too short yields a null pointer with its length.
dispatchRaw(p) ==
    IF Len(p) < 1 THEN Refused
    ELSE LET len == IF p[1] = -1 THEN 0 ELSE p[1]
         IN  Calls(IF Len(p) < 1 + len THEN Null ELSE ReadMany(p, 1, len), len)

\* RIL_CDMA_SMS_Message: head and address (7 values), the digits, the
\* subaddress (2 values), its digits, the bearer data.  Each array is kept with
\* the count the parcel gives, which may exceed the array.
Message(head, n, digits, sub, m, subDigits, bearerLen, bearer) ==
    [head |-> head, n |-> n, digits |-> digits, sub |-> sub, m |-> m,
     subDigits |-> subDigits, bearerLen |-> bearerLen, bearer |-> bearer]

Kept(count, max) == IF count = Null \/ count < 0 THEN 0 ELSE least(count, max)

\* A caller that trusts the counts reads that many values of an array, within the
\* array; the other reads the array in full.
ReadParcel(p, trusting) ==
    LET Extent(count, max) == IF trusting THEN Kept(count, max) ELSE max
        a == 8 + Extent(Read(p, 8), AddressMax)
        b == a + 3 + Extent(Read(p, a + 3), SubaddressMax)
        c == b + 1 + Extent(Read(p, b + 1), BearerMax)
    IN  [end |-> c,
         message |-> Message(ReadMany(p, 0, 7), Read(p, 8), ReadMany(p, 8, a - 8),
                       ReadMany(p, a, 2), Read(p, a + 3), ReadMany(p, a + 3, b - a - 3),
                       Read(p, b + 1), ReadMany(p, b + 1, c - b - 1))]

\* All fields of a message but eight are read as one byte of the four they have in
\* the parcel: the counts and the digits too.
ReadByte(p, i) == IF i \in DOMAIN p THEN byte(p[i]) ELSE Null
Octets(p, trusting) ==
    LET Extent(count, max) == IF trusting THEN Kept(count, max) ELSE max
        a == 8 + Extent(ReadByte(p, 8), AddressMax)
        b == a + 3 + Extent(ReadByte(p, a + 3), SubaddressMax)
    IN  [i \in DOMAIN p |-> IF i \in {1, 3, 4, 5, 6, 7, a + 1, b + 1} THEN p[i] ELSE byte(p[i])]
ReadMessage(p, trusting) == ReadParcel(Octets(p, trusting), trusting)

dispatchCdmaSms(p) ==
    LET r == ReadMessage(p, TRUE)
    IN  IF Len(p) < r.end THEN Refused ELSE Calls(r.message, 1)

\* uErrorClass, uSMSCauseCode
dispatchCdmaSmsAck(p) == IF Len(p) < 2 THEN Refused ELSE Calls(ReadMany(p, 0, 2), 1)

\* num entries of fromServiceId, toServiceId, fromCodeScheme, toCodeScheme, selected
dispatchGsmBrSmsCnf(p) ==
    IF Len(p) < 1 THEN Refused
    ELSE IF Len(p) < 1 + 5 * p[1] THEN Refused
    ELSE Calls([k \in 1..p[1] |-> [ReadGroups(p, 1, p[1], 5)[k] EXCEPT ![5] = byte(@)]], p[1])

\* num entries of service_category, language, selected
dispatchCdmaBrSmsCnf(p) ==
    IF Len(p) < 1 THEN Refused
    ELSE IF Len(p) < 1 + 3 * p[1] THEN Refused
    ELSE Calls([k \in 1..p[1] |-> [ReadGroups(p, 1, p[1], 3)[k] EXCEPT ![3] = byte(@)]], p[1])

\* The status and a message whose arrays are always read in full.
dispatchRilCdmaSmsWriteArgs(p) ==
    LET r == ReadMessage(Tail(p), FALSE)
    IN  IF Len(p) < 1 THEN Refused
        ELSE IF Len(p) < 1 + r.end THEN Refused
        ELSE Calls([status |-> p[1], message |-> r.message], 1)

-----------------------------------------------------------------------------
(* Responses.  A response is null or a sequence of elements; responselen   *)
(* counts in halves of an element, so that a length can be no multiple of  *)
(* it.  A function writes values and returns 0, or RIL_ERRNO_INVALID_      *)
(* RESPONSE after what it has written so far.                              *)

ElementSize == 2
RIL_ERRNO_INVALID_RESPONSE == -1
INVALID_RESPONSE == [ret |-> RIL_ERRNO_INVALID_RESPONSE, out |-> <<>>]
Writes(values) == [ret |-> 0, out |-> values]

\* Arrays: a null array needs the length 0, any array a whole number of elements.
BadArray(response, len) == (response = Null /\ len # 0) \/ len % ElementSize # 0
Array(response, len) ==
    IF BadArray(response, len) THEN INVALID_RESPONSE
    ELSE LET n == len \div ElementSize
         IN  Writes(<<n>> \o [i \in 1..n |-> response[i]])
ArrayOfStructs(response, len) ==
    IF BadArray(response, len) THEN INVALID_RESPONSE
    ELSE LET n == len \div ElementSize
         IN  Writes(<<n>> \o FlattenSeq([i \in 1..n |-> response[i]]))
\* Structures: not null and of the exact size.
Struct(response, len) ==
    IF response = Null \/ len # ElementSize THEN INVALID_RESPONSE
    ELSE Writes(response[1])

responseInts(response, len) == Array(response, len)
responseStrings(response, len) == Array(response, len)
responseString(response, len) == Writes(<<IF response = Null THEN Null ELSE response[1]>>)
responseVoid(response, len) == Writes(<<>>)
responseCallList(response, len) == ArrayOfStructs(response, len)
responseSMS(response, len) == Struct(response, len)
responseDataCallList(response, len) == ArrayOfStructs(response, len)
responseRaw(response, len) ==
    IF response = Null /\ len # 0 THEN INVALID_RESPONSE
    ELSE IF response = Null THEN Writes(<<-1>>)
    ELSE Writes(<<len \div ElementSize>> \o response)
responseSIM_IO(response, len) == Struct(response, len)
responseCallForwards(response, len) == ArrayOfStructs(response, len)
responseSsn(response, len) == Struct(response, len)
responseCellList(response, len) == ArrayOfStructs(response, len)
responseGsmBrSmsCnf(response, len) ==
    LET n == len \div ElementSize IN Writes(<<n>> \o FlattenSeq(SubSeq(response, 1, n)))
responseCdmaBrSmsCnf(response, len) ==
    LET n == len \div ElementSize IN Writes(<<n>> \o FlattenSeq(SubSeq(response, 1, n)))
responseCdmaSignalInfoRecord(response, len) ==
    IF response = Null \/ len # ElementSize THEN INVALID_RESPONSE ELSE Writes(response[1])
responseCallRing(response, len) ==
    IF response = Null \/ len = 0 THEN responseVoid(response, len)
    ELSE responseCdmaSignalInfoRecord(response, len)
responseCdmaCallWaiting(response, len) == Struct(response, len)

\* Seven integers; an old RIL gives fewer, and zeros are written for the rest.
RIL_SignalStrength == 7
responseRilSignalStrength(response, len) ==
    IF (response = Null /\ len # 0) \/ len % ElementSize # 0 THEN INVALID_RESPONSE
    ELSE LET n == len \div ElementSize
         IN  Writes([i \in 1..(IF n > RIL_SignalStrength THEN n ELSE RIL_SignalStrength) |-> IF i <= n THEN response[i] ELSE 0])

\* The applications are counted in the status itself.
responseSimStatus(response, len) ==
    IF BadArray(response, len) THEN INVALID_RESPONSE
    ELSE Writes(response[1].card \o <<Len(response[1].applications)>>
                \o FlattenSeq(response[1].applications))

\* Mutant: the length of the subaddress is not written.
responseCdmaSms_NoSublength(response, len) ==
    LET m == response[1]
    IN  Writes(m.head \o <<m.n>> \o m.digits \o m.sub \o m.subDigits
               \o <<m.bearerLen>> \o m.bearer)
responseCdmaSms(response, len) ==
    IF response = Null \/ len # ElementSize THEN INVALID_RESPONSE
    ELSE LET m == response[1]
         IN  Writes(m.head \o <<m.n>> \o SubSeq(m.digits, 1, Kept(m.n, AddressMax))
                    \o m.sub \o <<m.m>> \o SubSeq(m.subDigits, 1, Kept(m.m, SubaddressMax))
                    \o <<m.bearerLen>> \o SubSeq(m.bearer, 1, Kept(m.bearerLen, BearerMax)))

\* Records by name, at most ten; a record with a wrong length, a T53 release or
\* an unknown name ends the function with what it has written before.
MaxInfoRecs == 10
Marshallable(record) == record.name \notin {"release", "unknown"} /\ ~record.tooLong
responseCdmaInformationRecords(response, len) ==
    IF response = Null \/ len # ElementSize THEN INVALID_RESPONSE
    ELSE LET records == SubSeq(response[1], 1, least(Len(response[1]), MaxInfoRecs))
             bad == {i \in DOMAIN records : ~Marshallable(records[i])}
             good == IF bad = {} THEN Len(records) ELSE (CHOOSE i \in bad : \A j \in bad : i <= j) - 1
         IN  [ret |-> IF bad = {} THEN 0 ELSE RIL_ERRNO_INVALID_RESPONSE,
              out |-> <<Len(records)>> \o FlattenSeq([i \in 1..good |-> records[i].values])]

-----------------------------------------------------------------------------
(* s_commands and s_unsolResponses: which function marshals what.  A       *)
(* request is named as in ril_commands.h, without RIL_REQUEST_.            *)

StringsRequests == {"ENTER_SIM_PIN", "ENTER_SIM_PUK", "ENTER_SIM_PIN2", "ENTER_SIM_PUK2",
    "CHANGE_SIM_PIN", "CHANGE_SIM_PIN2", "ENTER_NETWORK_DEPERSONALIZATION", "SEND_SMS",
    "SEND_SMS_EXPECT_MORE", "SETUP_DATA_CALL", "DEACTIVATE_DATA_CALL", "QUERY_FACILITY_LOCK",
    "SET_FACILITY_LOCK", "CHANGE_BARRING_PASSWORD", "OEM_HOOK_STRINGS", "CDMA_BURST_DTMF"}
StringRequests == {"DTMF", "SEND_USSD", "SET_NETWORK_SELECTION_MANUAL", "DTMF_START",
    "STK_SET_PROFILE", "STK_SEND_ENVELOPE_COMMAND", "STK_SEND_TERMINAL_RESPONSE", "CDMA_FLASH",
    "CDMA_VALIDATE_AND_WRITE_AKEY", "SET_SMSC_ADDRESS"}
IntsRequests == {"HANGUP", "RADIO_POWER", "SET_CLIR", "QUERY_CALL_WAITING", "SET_CALL_WAITING",
    "SMS_ACKNOWLEDGE", "SEPARATE_CONNECTION", "SET_MUTE", "SCREEN_STATE",
    "SET_SUPP_SVC_NOTIFICATION", "DELETE_SMS_ON_SIM", "SET_BAND_MODE",
    "STK_HANDLE_CALL_SETUP_REQUESTED_FROM_SIM", "SET_PREFERRED_NETWORK_TYPE",
    "SET_LOCATION_UPDATES", "CDMA_SET_SUBSCRIPTION", "CDMA_SET_ROAMING_PREFERENCE",
    "SET_TTY_MODE", "CDMA_SET_PREFERRED_VOICE_PRIVACY_MODE", "GSM_SMS_BROADCAST_ACTIVATION",
    "CDMA_SMS_BROADCAST_ACTIVATION", "CDMA_DELETE_SMS_ON_RUIM", "REPORT_SMS_MEMORY_STATUS"}
VoidRequests == {"GET_SIM_STATUS", "GET_CURRENT_CALLS", "GET_IMSI",
    "HANGUP_WAITING_OR_BACKGROUND", "HANGUP_FOREGROUND_RESUME_BACKGROUND",
    "SWITCH_WAITING_OR_HOLDING_AND_ACTIVE", "CONFERENCE", "UDUB", "LAST_CALL_FAIL_CAUSE",
    "SIGNAL_STRENGTH", "REGISTRATION_STATE", "GPRS_REGISTRATION_STATE", "OPERATOR",
    "CANCEL_USSD", "GET_CLIR", "GET_IMEI", "GET_IMEISV", "ANSWER",
    "QUERY_NETWORK_SELECTION_MODE", "SET_NETWORK_SELECTION_AUTOMATIC",
    "QUERY_AVAILABLE_NETWORKS", "DTMF_STOP", "BASEBAND_VERSION", "GET_MUTE", "QUERY_CLIP",
    "LAST_DATA_CALL_FAIL_CAUSE", "DATA_CALL_LIST", "RESET_RADIO", "QUERY_AVAILABLE_BAND_MODE",
    "STK_GET_PROFILE", "EXPLICIT_CALL_TRANSFER", "GET_PREFERRED_NETWORK_TYPE",
    "GET_NEIGHBORING_CELL_IDS", "CDMA_QUERY_ROAMING_PREFERENCE", "QUERY_TTY_MODE",
    "CDMA_QUERY_PREFERRED_VOICE_PRIVACY_MODE", "GSM_GET_BROADCAST_SMS_CONFIG",
    "CDMA_GET_BROADCAST_SMS_CONFIG", "CDMA_SUBSCRIPTION", "DEVICE_IDENTITY",
    "EXIT_EMERGENCY_CALLBACK_MODE", "GET_SMSC_ADDRESS", "REPORT_STK_SERVICE_IS_RUNNING"}
CallForwardRequests == {"QUERY_CALL_FORWARD_STATUS", "SET_CALL_FORWARD"}

dispatchFunction(request, p) ==
    CASE request \in VoidRequests -> dispatchVoid(p)
      [] request \in StringRequests -> dispatchString(p)
      [] request \in StringsRequests -> dispatchStrings(p)
      [] request \in IntsRequests -> dispatchInts(p)
      [] request \in CallForwardRequests -> dispatchCallForward(p)
      [] request = "DIAL" -> dispatchDial(p)
      [] request = "SIM_IO" -> dispatchSIM_IO(p)
      [] request = "WRITE_SMS_TO_SIM" -> dispatchSmsWrite(p)
      [] request = "OEM_HOOK_RAW" -> dispatchRaw(p)
      [] request = "CDMA_SEND_SMS" -> dispatchCdmaSms(p)
      [] request = "CDMA_SMS_ACKNOWLEDGE" -> dispatchCdmaSmsAck(p)
      [] request = "GSM_SET_BROADCAST_SMS_CONFIG" -> dispatchGsmBrSmsCnf(p)
      [] request = "CDMA_SET_BROADCAST_SMS_CONFIG" -> dispatchCdmaBrSmsCnf(p)
      [] request = "CDMA_WRITE_SMS_TO_RUIM" -> dispatchRilCdmaSmsWriteArgs(p)

RequestCodes == StringsRequests \union StringRequests \union IntsRequests \union VoidRequests
    \union CallForwardRequests \union {"DIAL", "SIM_IO", "WRITE_SMS_TO_SIM", "OEM_HOOK_RAW",
    "CDMA_SEND_SMS", "CDMA_SMS_ACKNOWLEDGE", "GSM_SET_BROADCAST_SMS_CONFIG",
    "CDMA_SET_BROADCAST_SMS_CONFIG", "CDMA_WRITE_SMS_TO_RUIM"}

IntsResponses == {"ENTER_SIM_PIN", "ENTER_SIM_PUK", "ENTER_SIM_PIN2", "ENTER_SIM_PUK2",
    "CHANGE_SIM_PIN", "CHANGE_SIM_PIN2", "ENTER_NETWORK_DEPERSONALIZATION",
    "LAST_CALL_FAIL_CAUSE", "GET_CLIR", "QUERY_CALL_WAITING", "QUERY_FACILITY_LOCK",
    "SET_FACILITY_LOCK", "QUERY_NETWORK_SELECTION_MODE", "GET_MUTE", "QUERY_CLIP",
    "LAST_DATA_CALL_FAIL_CAUSE", "WRITE_SMS_TO_SIM", "QUERY_AVAILABLE_BAND_MODE",
    "GET_PREFERRED_NETWORK_TYPE", "CDMA_QUERY_ROAMING_PREFERENCE", "QUERY_TTY_MODE",
    "CDMA_QUERY_PREFERRED_VOICE_PRIVACY_MODE", "CDMA_WRITE_SMS_TO_RUIM"}
StringResponses == {"GET_IMSI", "GET_IMEI", "GET_IMEISV", "BASEBAND_VERSION",
    "STK_GET_PROFILE", "STK_SEND_ENVELOPE_COMMAND", "GET_SMSC_ADDRESS"}
StringsResponses == {"REGISTRATION_STATE", "GPRS_REGISTRATION_STATE", "OPERATOR",
    "SETUP_DATA_CALL", "QUERY_AVAILABLE_NETWORKS", "OEM_HOOK_STRINGS", "CDMA_SUBSCRIPTION",
    "DEVICE_IDENTITY"}
SMSResponses == {"SEND_SMS", "SEND_SMS_EXPECT_MORE", "CDMA_SEND_SMS"}

responseFunction(request, response, len) ==
    CASE request \in IntsResponses -> responseInts(response, len)
      [] request \in StringResponses -> responseString(response, len)
      [] request \in StringsResponses -> responseStrings(response, len)
      [] request \in SMSResponses -> responseSMS(response, len)
      [] request = "GET_SIM_STATUS" -> responseSimStatus(response, len)
      [] request = "GET_CURRENT_CALLS" -> responseCallList(response, len)
      [] request = "SIGNAL_STRENGTH" -> responseRilSignalStrength(response, len)
      [] request = "SIM_IO" -> responseSIM_IO(response, len)
      [] request = "QUERY_CALL_FORWARD_STATUS" -> responseCallForwards(response, len)
      [] request = "DATA_CALL_LIST" -> responseDataCallList(response, len)
      [] request = "OEM_HOOK_RAW" -> responseRaw(response, len)
      [] request = "GET_NEIGHBORING_CELL_IDS" -> responseCellList(response, len)
      [] request = "GSM_GET_BROADCAST_SMS_CONFIG" -> responseGsmBrSmsCnf(response, len)
      [] request = "CDMA_GET_BROADCAST_SMS_CONFIG" -> responseCdmaBrSmsCnf(response, len)
      [] OTHER -> responseVoid(response, len)

RESPONSE_SOLICITED == 0
RESPONSE_UNSOLICITED == 1
RIL_E_SUCCESS == 0
RIL_E_RADIO_NOT_AVAILABLE == 1
RIL_E_GENERIC_FAILURE == 2
RIL_E_PASSWORD_INCORRECT == 3
RIL_E_REQUEST_NOT_SUPPORTED == 6

\* The frame of an answer, without the token: a payload is marshalled whatever
\* the error, and when that fails the error is overwritten where it stands.
AnswerFrame(request, e, response, len) ==
    IF response = Null THEN <<RESPONSE_SOLICITED, e>>
    ELSE LET r == responseFunction(request, response, len)
         IN  <<RESPONSE_SOLICITED, IF r.ret # 0 THEN r.ret ELSE e>> \o r.out

VoidEvents == {"RESPONSE_RADIO_STATE_CHANGED", "RESPONSE_CALL_STATE_CHANGED",
    "RESPONSE_NETWORK_STATE_CHANGED", "ON_USSD_REQUEST", "STK_SESSION_END",
    "SIM_SMS_STORAGE_FULL", "RESPONSE_SIM_STATUS_CHANGED", "CDMA_RUIM_SMS_STORAGE_FULL",
    "ENTER_EMERGENCY_CALLBACK_MODE", "RESEND_INCALL_MUTE"}
StringEvents == {"RESPONSE_NEW_SMS", "RESPONSE_NEW_SMS_STATUS_REPORT", "NITZ_TIME_RECEIVED",
    "STK_PROACTIVE_COMMAND", "STK_EVENT_NOTIFY", "RESPONSE_NEW_BROADCAST_SMS"}
IntsEvents == {"RESPONSE_NEW_SMS_ON_SIM", "STK_CALL_SETUP", "SIM_REFRESH",
    "RESTRICTED_STATE_CHANGED", "CDMA_OTA_PROVISION_STATUS", "RINGBACK_TONE"}
UnsolCodes == VoidEvents \union StringEvents \union IntsEvents \union {"ON_USSD",
    "SIGNAL_STRENGTH", "DATA_CALL_LIST_CHANGED", "SUPP_SVC_NOTIFICATION", "CALL_RING",
    "RESPONSE_CDMA_NEW_SMS", "CDMA_CALL_WAITING", "CDMA_INFO_REC", "OEM_HOOK_RAW"}

unsolResponseFunction(event, response, len) ==
    CASE event \in VoidEvents -> responseVoid(response, len)
      [] event \in StringEvents -> responseString(response, len)
      [] event \in IntsEvents -> responseInts(response, len)
      [] event = "ON_USSD" -> responseStrings(response, len)
      [] event = "SIGNAL_STRENGTH" -> responseRilSignalStrength(response, len)
      [] event = "DATA_CALL_LIST_CHANGED" -> responseDataCallList(response, len)
      [] event = "SUPP_SVC_NOTIFICATION" -> responseSsn(response, len)
      [] event = "CALL_RING" -> responseCallRing(response, len)
      [] event = "RESPONSE_CDMA_NEW_SMS" -> responseCdmaSms(response, len)
      [] event = "CDMA_CALL_WAITING" -> responseCdmaCallWaiting(response, len)
      [] event = "CDMA_INFO_REC" -> responseCdmaInformationRecords(response, len)
      [] event = "OEM_HOOK_RAW" -> responseRaw(response, len)

\* Every event but two acquires the wake lock for a second.
wakeType(event) ==
    IF event \in {"ON_USSD_REQUEST", "SIGNAL_STRENGTH"} THEN "DONT_WAKE" ELSE "WAKE_PARTIAL"

=============================================================================
