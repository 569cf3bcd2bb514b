------------------------------ MODULE Protocol ------------------------------
(***************************************************************************)
(* The message codes the client and the server exchange, as constants.h    *)
(* defines them in the namespaces ServerRequests::Codes and                *)
(* ServerResponses.                                                        *)
(***************************************************************************)
EXTENDS Integers

\* ServerRequests::Codes.
REGISTRATION         == 1025
SEND_PUBLIC_KEY      == 1026
RECONNECT            == 1027
SEND_FILE            == 1028
CRC_CORRECT          == 1029
CRC_INCORRECT_RESEND == 1030
CRC_INCORRECT_DONE   == 1031

RequestCode == REGISTRATION .. CRC_INCORRECT_DONE

\* ServerResponses.
REGISTRATION_SUCCESS         == 2100
REGISTRATION_FAILED          == 2101
RECEIVED_PUBLIC_KEY_SEND_AES == 2102
FILE_RECEIVED_CRC_OK         == 2103
CONFIRM_MSG                  == 2104
APPROVE_RECONNECT_SEND_AES   == 2105
RECONNECT_REJECTED           == 2106

\* Any 16-bit response code the client knows no name for, such as a general
\* error of the server: the client compares codes for equality only, so one
\* value stands for them all.
OTHER_CODE == 0

ResponseCode == (REGISTRATION_SUCCESS .. RECONNECT_REJECTED) \cup {OTHER_CODE}
=============================================================================
