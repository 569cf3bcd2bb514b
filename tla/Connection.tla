----------------------------- MODULE Connection -----------------------------
(***************************************************************************)
(* The one TCP connection of a client process: what sendRequest and        *)
(* getResponse do to it, and what the server's end may do.  Every step of  *)
(* the client, in whichever flow, goes through these operators.            *)
(*                                                                         *)
(* A Request or Response is a record [code, payload], where payload is the *)
(* one part of the real payload the flows act on: a name, a key, a file, a *)
(* client id or a checksum.  EmptyPayload is a std::string of length zero, *)
(* which is also what getResponse leaves in a Response it could not fill.  *)
(*                                                                         *)
(* A recv that returns only part of a message whose remaining bytes arrive *)
(* later is not modelled here but in ResponseStream, where                 *)
(* InStepUntilShortRead justifies it: a message is cut short by a close.   *)
(***************************************************************************)
EXTENDS Protocol, Sequences

CONSTANTS
  EmptyPayload,   \* the payload of a Response that carries none
  MayClose        \* whether the server's end may close in mid-session

ASSUME MayCloseAssumption == MayClose \in BOOLEAN

VARIABLES
  requests,    \* Requests sent and not yet taken by the server
  responses,   \* Responses the server wrote and the client has not read
  connected,   \* FALSE once the server's end is closed
  sends        \* history: how often each request code was sent

connVars == <<requests, responses, connected, sends>>

NeverSent == [c \in RequestCode |-> 0]

-----------------------------------------------------------------------------
(* The client's end.                                                       *)

\* sendRequest: one send() of the whole request.  An error of send() is
\* logged and swallowed, so the caller goes on as if the bytes had left.
SendRequest(code, payload) ==
  /\ requests' = IF connected
                 THEN Append(requests, [code |-> code, payload |-> payload])
                 ELSE requests
  /\ sends' = [sends EXCEPT ![code] = @ + 1]

\* A send() on a connection the peer has closed may instead raise SIGPIPE,
\* which the program neither handles nor disables.
SigPipe ==
  /\ ~connected
  /\ UNCHANGED <<requests, sends>>

\* `Response response;` sets none of its scalar members, and getResponse
\* returns it as it is when the header does not arrive: the code is whatever
\* the stack held, typically a code of an earlier response.
UninitializedResponse == [code : ResponseCode, payload : {EmptyPayload}]

\* What getResponse can return in this state.  The set is empty while the
\* client blocks in recv(), which has no timeout.
GetResponse ==
  IF responses # <<>>
  THEN {Head(responses)}
  ELSE {r \in UninitializedResponse : ~connected}

\* The bytes getResponse took from the socket are gone.
ConsumeResponse ==
  responses' = IF responses = <<>> THEN <<>> ELSE Tail(responses)

-----------------------------------------------------------------------------
(* The server's end, as the client uses it.                                *)

\* The server takes the oldest request.
Takes(code) ==
  /\ connected
  /\ requests # <<>>
  /\ Head(requests).code = code
  /\ requests' = Tail(requests)

\* The reply to a request: written whole; or cut short by a close after its
\* header, which leaves the client a valid code and an empty payload; or
\* lost to a close before any of it was written.
Reply(code, payload) ==
  /\ \/ /\ responses' = Append(responses, [code |-> code, payload |-> payload])
        /\ UNCHANGED connected
     \/ /\ MayClose
        /\ connected' = FALSE
        /\ \/ responses' = Append(responses, [code |-> code, payload |-> EmptyPayload])
           \/ UNCHANGED responses
  /\ UNCHANGED sends

\* The server closes its end, dropping the requests it has not taken.  What
\* it wrote before stays readable.
ServerCloses ==
  /\ MayClose
  /\ connected
  /\ connected' = FALSE
  /\ requests' = <<>>
  /\ UNCHANGED <<responses, sends>>
=============================================================================
