---------------------------- MODULE MCRilExchange ----------------------------
(* Parcels, answers and events for TLC: each structure once or twice, with  *)
(* distinct values in its fields, and every parcel also cut short.          *)
EXTENDS RilExchange

\* Every parcel of at least n values that starts one of the given ones.
Cut(n, parcels) == UNION {{SubSeq(p, 1, k) : k \in n..Len(p)} : p \in parcels}

Sms(n, m, b) == <<4098, 1, 5, 0, 1, 2, 3, n>> \o [i \in 1..n |-> 10 + i] \o <<7, 8, m>>
                \o [i \in 1..m |-> 20 + i] \o <<b>> \o [i \in 1..b |-> 30 + i]
\* Numbers that are not those of a byte: a digit below 0, and a count of 258, which is 2.
WideSms == [Sms(2, 1, 2) EXCEPT ![2] = 257, ![8] = 258, ![9] = -1]
\* An entry selected with the value 257 is selected with 1.
GsmConfigs == {<<0>>, <<1, 1, 2, 3, 4, 1>>, <<2, 1, 2, 3, 4, 0, 5, 6, 7, 8, 257>>}
CdmaConfigs == {<<0>>, <<1, 1, 2, 1>>, <<2, 1, 2, 0, 3, 4, 257>>}

MCParcels == [r \in RequestCodes |->
    CASE r \in VoidRequests -> {<<>>}
      [] r \in StringRequests -> Cut(0, {<<7>>}) \union {<<Null>>}
      [] r \in StringsRequests -> Cut(0, {<<2, 7, 8>>, <<3, 7, Null, 9>>}) \union {<<-1>>, <<0>>}
      [] r \in IntsRequests -> Cut(0, {<<2, 7, 8>>}) \union {<<1, 0>>, <<0>>}
      [] r \in CallForwardRequests -> Cut(0, {<<1, 2, 3, 129, 7, 20>>, <<1, 2, 3, 129, 0, 20>>})
      [] r = "DIAL" -> Cut(0, {<<7, 1>>}) \union {<<Null, 0>>}
      [] r = "SIM_IO" -> Cut(0, {<<192, 5, 7, 1, 2, 3, Null, 8>>})
      [] r = "WRITE_SMS_TO_SIM" -> Cut(0, {<<1, 7, 8>>}) \union {<<1, Null, 8>>}
      [] r = "OEM_HOOK_RAW" -> Cut(0, {<<3, 1, 2, 3>>}) \union {<<-1>>}
      [] r = "CDMA_SEND_SMS" -> Cut(8, {Sms(2, 1, 2), Sms(0, 0, 1), Sms(1, 2, 0), WideSms})
      [] r = "CDMA_SMS_ACKNOWLEDGE" -> Cut(0, {<<1, 2>>})
      [] r = "GSM_SET_BROADCAST_SMS_CONFIG" -> Cut(0, GsmConfigs)
      [] r = "CDMA_SET_BROADCAST_SMS_CONFIG" -> Cut(0, CdmaConfigs)
      [] r = "CDMA_WRITE_SMS_TO_RUIM" -> Cut(7, {<<1>> \o Sms(2, 2, 3)})]

Answer(e, response, len) == [e |-> e, response |-> response, len |-> len]
Success(response, n) == Answer(RIL_E_SUCCESS, response, ElementSize * n)
Failure == Answer(RIL_E_GENERIC_FAILURE, Null, 0)
\* A payload with an error, a length that is no multiple, a null array with one.
Unusual(response, n) == {Answer(RIL_E_GENERIC_FAILURE, response, ElementSize * n),
                         Answer(RIL_E_SUCCESS, response, ElementSize * n + 1)}

Card(n) == <<[card |-> <<1, 0, 8, 8>>, applications |-> [i \in 1..n |-> <<i, 2, 3, Null, Null, 0, 1, 1>>]]>>

MCAnswers == [r \in RequestCodes |-> {Failure, Success(Null, 0)} \union
    CASE r \in IntsResponses -> {Success(<<7, 8>>, 2)} \union Unusual(<<7, 8>>, 2)
      [] r \in StringResponses -> {Success(<<7>>, 1)}
      [] r \in StringsResponses -> {Success(<<7, Null>>, 2)} \union Unusual(<<7>>, 1)
      [] r \in SMSResponses -> {Success(<<<<1, Null, 3>>>>, 1)} \union Unusual(<<<<1, 2, 3>>>>, 1)
      [] r = "GET_SIM_STATUS" -> {Success(Card(0), 1), Success(Card(2), 1)} \union Unusual(Card(1), 1)
      [] r = "GET_CURRENT_CALLS" -> {Success(<<<<0, 1>>, <<4, 2>>>>, 2)} \union Unusual(<<<<0, 1>>>>, 1)
      [] r = "SIGNAL_STRENGTH" -> {Success(<<9, 99>>, 2), Success(<<1, 2, 3, 4, 5, 6, 7>>, 7)}
                                  \union Unusual(<<9>>, 1)
      [] r = "SIM_IO" -> {Success(<<<<144, 0, 7>>>>, 1)} \union Unusual(<<<<144, 0, 7>>>>, 1)
      [] r = "QUERY_CALL_FORWARD_STATUS" -> {Success(<<<<1, 2, 3, 129, 7, 20>>>>, 1)}
                                  \union Unusual(<<<<1, 2, 3, 129, 7, 20>>>>, 1)
      [] r = "DATA_CALL_LIST" -> {Success(<<<<1, 2, 7, 8, 9>>>>, 1)} \union Unusual(<<<<1, 2, 7, 8, 9>>>>, 1)
      [] r = "OEM_HOOK_RAW" -> {Success(<<1, 2, 3>>, 3)}
      [] r = "GET_NEIGHBORING_CELL_IDS" -> {Success(<<<<7, 1>>>>, 1)} \union Unusual(<<<<7, 1>>>>, 1)
      [] OTHER -> {}]

Event(response, n) == [response |-> response, len |-> ElementSize * n]
Record(name, values) == [name |-> name, values |-> values, tooLong |-> FALSE]
MCEvents == [e \in UnsolCodes |->
    CASE e \in VoidEvents -> {Event(Null, 0)}
      [] e = "CALL_RING" -> {Event(Null, 0), Event(<<<<1, 2, 3, 4>>>>, 1)}
      [] e = "DATA_CALL_LIST_CHANGED" -> {Event(Null, 0), Event(<<<<1, 2, 7, 8, 9>>>>, 1)}
      [] e = "SUPP_SVC_NOTIFICATION" -> {Event(<<<<1, 2, 3, 4, 7>>>>, 1)}
      [] e = "CDMA_CALL_WAITING" -> {Event(<<<<7, 0, 8, 1, 2, 3, 4>>>>, 1)}
      [] e = "CDMA_INFO_REC" ->
            {Event(<<<<Record("display", <<0, 7>>), Record("signal", <<6, 1, 2, 3, 4>>)>>>>, 1),
             Event(<<<<Record("display", <<0, 7>>), Record("release", <<>>)>>>>, 1)}
      [] e = "RESPONSE_CDMA_NEW_SMS" -> {}
      [] OTHER -> {Event(<<7>>, 1)}]
=============================================================================
