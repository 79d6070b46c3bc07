---------------------------- MODULE MCReferenceRil ----------------------------
(* Every request the reference RIL handles and two it does not, with the      *)
(* parcels its handlers tell apart.                                           *)
EXTENDS ReferenceRil

MCParcels(r) ==
    CASE r = "RADIO_POWER" -> {<<1, 0>>, <<1, 1>>}
      [] r = "SMS_ACKNOWLEDGE" -> {<<1, 0>>, <<2, 1, 0>>, <<1, 2>>}
      [] r = "SEPARATE_CONNECTION" -> {<<1, 0>>, <<1, 5>>}
      [] r \in {"HANGUP", "DELETE_SMS_ON_SIM", "SET_PREFERRED_NETWORK_TYPE"} -> {<<1, 1>>}
      [] r = "ENTER_SIM_PIN" -> {<<1, 7>>, <<3, 7, 8, 9>>}
      [] r = "CHANGE_SIM_PIN" -> {<<2, 7, 8>>}
      [] r = "SEND_SMS" -> {<<2, Null, 7>>}
      [] r = "SETUP_DATA_CALL" -> {<<3, 7, 8, 9>>}
      [] r = "OEM_HOOK_STRINGS" -> {<<2, 7, Null>>, <<-1>>}
      [] r = "OEM_HOOK_RAW" -> {<<2, 7, 8>>, <<-1>>}
      [] r = "DIAL" -> {<<7, 0>>}
      [] r = "SIM_IO" -> {<<176, 5, 7, 1, 2, 3, Null, Null>>}
      [] r = "WRITE_SMS_TO_SIM" -> {<<1, 7, Null>>}
      [] r \in {"DTMF", "SEND_USSD"} -> {<<7>>}
      [] OTHER -> {<<>>}

Handled == {"GET_SIM_STATUS", "GET_CURRENT_CALLS", "DIAL", "HANGUP", "UDUB", "ANSWER",
    "SEPARATE_CONNECTION", "SIGNAL_STRENGTH", "REGISTRATION_STATE", "OPERATOR", "RADIO_POWER",
    "DTMF", "SEND_SMS", "SETUP_DATA_CALL", "SMS_ACKNOWLEDGE", "GET_IMSI", "SIM_IO",
    "SEND_USSD", "SET_NETWORK_SELECTION_AUTOMATIC", "DATA_CALL_LIST",
    "QUERY_NETWORK_SELECTION_MODE", "OEM_HOOK_RAW", "OEM_HOOK_STRINGS", "WRITE_SMS_TO_SIM",
    "DELETE_SMS_ON_SIM", "ENTER_SIM_PIN", "CHANGE_SIM_PIN", "SET_PREFERRED_NETWORK_TYPE", "GET_CLIR"}

MCRequests == UNION {{[request |-> r, parcel |-> p] : p \in MCParcels(r)} : r \in Handled}
MCLateRequests == {"GET_SIM_STATUS", "RADIO_POWER"}
=============================================================================
