--------------------------- MODULE ResponseStream ---------------------------
(***************************************************************************)
(* getResponse and safeReceive on the stream of bytes that TCP really is.  *)
(* Each response is a header of 7 bytes and a payload whose size the       *)
(* header tells.  getResponse calls recv once for each and takes whatever  *)
(* has arrived by then, so a response that travels in pieces, or that a    *)
(* close cuts short, puts every later call out of step.                    *)
(*                                                                         *)
(* The bytes themselves are left out: a position in the stream is the      *)
(* number of bytes in front of it, and a header read where no response     *)
(* begins is garbage.  Connection models the same calls by whole messages, *)
(* which InStepUntilShortRead below justifies.                             *)
(***************************************************************************)
EXTENDS Integers, Sequences

CONSTANTS
  MaxCalls,       \* bound: how often getResponse is called
  PayloadSize,    \* bound: the sizes of the payloads the server sends
  GarbageSize,    \* bound: the payload sizes a garbage header may tell
  StackLimit,     \* the largest payload_buffer the stack can hold
  ZeroRecvWaits,  \* what recv for 0 bytes may do on an empty socket: return
                  \*   at once (macOS, FALSE) or wait for data (Linux, TRUE)
  MaySplit        \* whether a response may arrive in pieces

ASSUME StreamAssumption ==
  /\ MaxCalls \in Nat
  /\ StackLimit \in Nat
  /\ PayloadSize \subseteq 0 .. StackLimit
  /\ GarbageSize \subseteq Nat
  /\ ZeroRecvWaits \subseteq BOOLEAN
  /\ MaySplit \in BOOLEAN

VARIABLES
  pc,         \* "idle" outside getResponse, "header" or "payload" in its two
              \*   recvs, "killed" when the stack overflowed
  call,       \* requests sent, and so calls of getResponse made
  ends,       \* where each response the server wrote ends in the stream
  arrived,    \* bytes that have reached the client
  taken,      \* bytes recv has returned
  open,       \* FALSE once the client sees the connection ended
  header,     \* the header of this call: the response it is of, 0 if it is
              \*   garbage, and the payload size it tells
  result,     \* what the last call returned: the response its code is of, 0 if
              \*   it is garbage or uninitialized, and whether the payload is whole
  zeroWaits,  \* which of ZeroRecvWaits this platform does
  shortRead   \* history: a recv returned less than it was asked for

vars == <<pc, call, ends, arrived, taken, open, header, result, zeroWaits, shortRead>>

-----------------------------------------------------------------------------
\* sizeof(header_buffer).
HEADER == 1 + 2 + 4

\* Response k occupies the bytes from Start(k) up to End(k).
End(k)   == IF k = 0 THEN 0 ELSE ends[k]
Start(k) == End(k - 1)

Answered  == Len(ends)
Available == arrived - taken

Least(m, n) == IF m <= n THEN m ELSE n

\* What `Response response;` holds before anything is filled in.
Uninitialized == [of |-> 0, whole |-> FALSE]

Init ==
  /\ pc = "idle" /\ call = 0
  /\ ends = <<>> /\ arrived = 0 /\ taken = 0 /\ open = TRUE
  /\ header = [of |-> 0, size |-> 0]
  /\ result = Uninitialized
  /\ zeroWaits \in ZeroRecvWaits
  /\ shortRead = FALSE

-----------------------------------------------------------------------------
(* The client.                                                             *)

\* A request went out, and its sender calls getResponse.
Call ==
  /\ pc = "idle" /\ call < MaxCalls
  /\ call' = call + 1
  /\ pc' = "header"
  /\ UNCHANGED <<ends, arrived, taken, open, header, result, zeroWaits, shortRead>>

\* Broken on purpose, as a mutant: recv of no bytes waits everywhere.
CanReceiveSome(length) == Available > 0 \/ ~open

\* recv returns what is there, as soon as anything is; 0 or -1 once the
\* connection ended.
CanReceive(length) ==
  \/ Available > 0 \/ ~open
  \/ length = 0 /\ ~zeroWaits

\* safeReceive: one recv, of n bytes out of the length asked for.
SafeReceive(length, n) ==
  /\ CanReceive(length)
  /\ n = Least(length, Available)
  /\ taken' = taken + n
  /\ shortRead' = (shortRead \/ n < length)

\* Broken on purpose, as a mutant: payloadSize is a signed int, so that what
\* was no header can announce a negative size.
HeaderSigned ==
  LET aligned == {k \in 1 .. Answered : Start(k) = taken}
  IN  IF aligned # {}
      THEN {[of |-> k, size |-> End(k) - Start(k) - HEADER] : k \in aligned}
      ELSE {[of |-> 0, size |-> IF s <= StackLimit THEN s ELSE -s] : s \in GarbageSize}

\* What is found at the position of the next byte.
HeaderHere ==
  LET aligned == {k \in 1 .. Answered : Start(k) = taken}
  IN  IF aligned # {}
      THEN {[of |-> k, size |-> End(k) - Start(k) - HEADER] : k \in aligned}
      ELSE {[of |-> 0, size |-> s] : s \in GarbageSize}

\* Broken on purpose, as a mutant: the payload is left in the socket.
PayloadLeftUnread ==
  /\ pc = "header"
  /\ \E n \in 0 .. HEADER :
       /\ SafeReceive(HEADER, n)
       /\ pc' = "idle"
       /\ IF n < HEADER
          THEN result' = Uninitialized /\ UNCHANGED header
          ELSE /\ header' \in HeaderHere
               /\ result' = [of |-> header'.of, whole |-> TRUE]
  /\ UNCHANGED <<call, ends, arrived, open, zeroWaits>>

\* The header.  Too few bytes of it, and getResponse returns its Response as
\* it is; the bytes are gone.  Otherwise payload_buffer is allocated, on the
\* stack.
RecvHeader ==
  /\ pc = "header"
  /\ \E n \in 0 .. HEADER :
       /\ SafeReceive(HEADER, n)
       /\ IF n < HEADER
          THEN pc' = "idle" /\ result' = Uninitialized /\ UNCHANGED header
          ELSE /\ header' \in HeaderHere
               /\ pc' = IF header'.size <= StackLimit THEN "payload" ELSE "killed"
               /\ UNCHANGED result
  /\ UNCHANGED <<call, ends, arrived, open, zeroWaits>>

\* The payload.  Too few bytes of it, and the code is returned without it.
RecvPayload ==
  /\ pc = "payload"
  /\ \E n \in 0 .. header.size :
       /\ SafeReceive(header.size, n)
       /\ result' = [of |-> header.of, whole |-> n = header.size]
  /\ pc' = "idle"
  /\ UNCHANGED <<call, ends, arrived, open, header, zeroWaits>>

Client == RecvHeader \/ RecvPayload

-----------------------------------------------------------------------------
(* The server and the network.                                             *)

\* The server writes one response for each request, in order.
ServerAnswers ==
  /\ open /\ Answered < call
  /\ \E s \in PayloadSize : ends' = Append(ends, End(Answered) + HEADER + s)
  /\ UNCHANGED <<pc, call, arrived, taken, open, header, result, zeroWaits, shortRead>>

\* Bytes arrive in order, in segments of any length.
Deliver ==
  /\ open /\ arrived < End(Answered)
  /\ arrived' \in arrived + 1 .. End(Answered)
  /\ MaySplit \/ arrived' = End(Answered)
  /\ UNCHANGED <<pc, call, ends, taken, open, header, result, zeroWaits, shortRead>>

\* The connection ends as the client sees it: nothing more arrives, and a
\* reset discards what was not read yet.
ConnectionEnds ==
  /\ open
  /\ open' = FALSE
  /\ arrived' \in {arrived, taken}
  /\ UNCHANGED <<pc, call, ends, taken, header, result, zeroWaits, shortRead>>

Next == Call \/ Client \/ ServerAnswers \/ Deliver \/ ConnectionEnds

Spec == Init /\ [][Next]_vars

\* The client runs unless recv blocks, the server answers and the network
\* delivers unless the connection ends.  Nobody has to call again.
FairSpec ==
  /\ Spec
  /\ WF_vars(Client)
  /\ WF_vars(ServerAnswers)
  /\ WF_vars(Deliver)

-----------------------------------------------------------------------------
(* Properties.                                                             *)

StreamTypeOK ==
  /\ pc \in {"idle", "header", "payload", "killed"}
  /\ call \in 0 .. MaxCalls
  /\ ends \in Seq(Nat)
  /\ arrived \in 0 .. End(Answered) /\ taken \in 0 .. arrived
  /\ open \in BOOLEAN
  /\ header \in [of : Nat, size : Nat]
  /\ result \in [of : Nat, whole : BOOLEAN]
  /\ zeroWaits \in BOOLEAN
  /\ shortRead \in BOOLEAN

\* The response of this call, whole.
Own == [of |-> call, whole |-> TRUE]

\* As long as no recv returned less than it was asked for, however the bytes
\* came in, each getResponse returned the response to its own request, whole,
\* and left nothing behind for the next; and the stack held each payload.
InStepUntilShortRead ==
  ~shortRead =>
    /\ pc # "killed"
    /\ pc = "idle" /\ call > 0 => result = Own /\ taken = End(Answered)

\* A call still in step comes back: it neither waits for bytes nobody owes nor
\* leaves bytes unread that its next recv would need.  On a platform where
\* recv for no bytes waits, a response without payload is the exception.
CallReturns ==
  \A k \in 1 .. MaxCalls :
    (call = k /\ pc \in {"header", "payload"}) ~>
      \/ pc = "idle" \/ shortRead
      \/ zeroWaits /\ pc = "payload" /\ header.size = 0

\* getResponse's comment: "Receives and deserializes a response from the
\* server into a Response object", and returns "The deserialized response
\* object."
ResponseIsOwn == pc = "idle" /\ call > 0 /\ open => result = Own

-----------------------------------------------------------------------------
(* The inductive invariant behind the safety properties.                   *)

\* The responses lie in the stream one behind the other, and each has a
\* payload the server sends.
LayoutInv ==
  /\ \A k \in 1 .. Answered : End(k) - Start(k) - HEADER \in PayloadSize
  /\ \A j, k \in 0 .. Answered : j < k => End(j) + HEADER <= End(k)

\* Where getResponse is fixes the position it reads at, until a short read.
InStepInv ==
  /\ Answered <= call
  /\ ~shortRead =>
       /\ pc # "killed"
       /\ pc = "idle" => Answered = call /\ taken = End(call)
       /\ pc = "idle" /\ call > 0 => result = Own
       /\ pc = "header" => call > 0 /\ Answered >= call - 1 /\ taken = Start(call)
       /\ pc = "payload" =>
            /\ call > 0 /\ Answered = call
            /\ header = [of |-> call, size |-> End(call) - Start(call) - HEADER]
            /\ taken = Start(call) + HEADER

StreamInv == StreamTypeOK /\ LayoutInv /\ InStepInv
=============================================================================
