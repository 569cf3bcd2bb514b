------------------------- MODULE FileTransferProofs -------------------------
(***************************************************************************)
(* Proofs about FileTransfer, for every set of contents and checksums, any *)
(* checksum function and every maxRetries.                                 *)
(***************************************************************************)
EXTENDS FileTransfer, SequenceTheorems, TLAPS

-----------------------------------------------------------------------------
(* Queues of at most one message.                                          *)

\* Appending to an empty queue gives a queue of one.
LEMMA AppendToEmpty ==
  ASSUME NEW S, NEW q \in Seq(S), q = <<>>, NEW m \in S
  PROVE  /\ Append(q, m) \in Seq(S)
         /\ Len(Append(q, m)) = 1
         /\ Append(q, m)[1] = m
         /\ Head(Append(q, m)) = m
         /\ Append(q, m) # <<>>
  OBVIOUS

\* Taking the only message of a queue leaves it empty.
LEMMA TakeFromOne ==
  ASSUME NEW S, NEW q \in Seq(S), q # <<>>, Len(q) <= 1
  PROVE  /\ Head(q) \in S
         /\ Head(q) = q[1]
         /\ Tail(q) = <<>>
         /\ Len(q) = 1
<1>1. Len(q) = 1 /\ Head(q) \in S /\ Head(q) = q[1]
  BY EmptySeq, SMTT(30)
<1>2. Tail(q) \in Seq(S) /\ Len(Tail(q)) = 0
  BY <1>1, HeadTailProperties
<1>3. Tail(q) = <<>>
  BY <1>2, EmptySeq
<1> QED
  BY <1>1, <1>3

Requests  == [code : RequestCode, payload : Content \cup {EmptyPayload}]
Responses == [code : ResponseCode, payload : CRC \cup {EmptyPayload}]

-----------------------------------------------------------------------------
(* What the connection operators do in a state of the invariant.           *)

\* A request is sent on an idle connection: it is the only one under way, or
\* nothing is if the peer is gone.
LEMMA SendEffect ==
  ASSUME TransferTypeOK, requests = <<>>,
         NEW code \in RequestCode, NEW payload \in Content \cup {EmptyPayload},
         SendRequest(code, payload)
  PROVE  /\ requests' \in Seq(Requests)
         /\ connected => Len(requests') = 1 /\ requests'[1].code = code
         /\ ~connected => requests' = <<>>
         /\ sends' \in [RequestCode -> Nat]
         /\ sends'[code] = sends[code] + 1
         /\ \A c \in RequestCode : c # code => sends'[c] = sends[c]
<1> DEFINE m == [code |-> code, payload |-> payload]
<1>1. m \in Requests
  BY DEF Requests
<1>2. requests \in Seq(Requests)
  BY DEF TransferTypeOK, Requests
<1>3. /\ Append(requests, m) \in Seq(Requests)
      /\ Len(Append(requests, m)) = 1
      /\ Append(requests, m)[1] = m
  BY <1>1, <1>2, AppendToEmpty
<1>4. /\ requests' \in Seq(Requests)
      /\ connected => Len(requests') = 1 /\ requests'[1].code = code
      /\ ~connected => requests' = <<>>
  BY <1>2, <1>3 DEF SendRequest
<1>5. /\ sends' \in [RequestCode -> Nat]
      /\ sends'[code] = sends[code] + 1
      /\ \A c \in RequestCode : c # code => sends'[c] = sends[c]
  <2>1. sends \in [RequestCode -> Nat] /\ sends' = [sends EXCEPT ![code] = @ + 1]
    BY DEF SendRequest, TransferTypeOK
  <2> QED
    BY <2>1
<1> QED
  BY <1>4, <1>5

\* getResponse empties the connection, and while the connection lives it
\* returns what the server wrote.
LEMMA ReceiveEffect ==
  ASSUME TransferInv, pc \in TransferAwaiting, ConsumeResponse,
         NEW r \in GetResponse
  PROVE  /\ responses' = <<>>
         /\ requests = <<>>
         /\ r \in Responses
         /\ connected => responses # <<>> /\ r = Head(responses)
<1>1. /\ responses \in Seq(Responses)
      /\ requests \in Seq(Requests)
      /\ Len(requests) + Len(responses) <= 1
      /\ ~connected => requests = <<>>
  BY DEF TransferInv, TransferTypeOK, RepliesArePaired, ClosedInv, Requests, Responses
<1>2. CASE responses # <<>>
  <2>1. /\ Len(responses) \in Nat \ {0}
        /\ Len(requests) \in Nat
    BY <1>1, <1>2, EmptySeq, LenProperties
  <2>2. Len(responses) <= 1 /\ Len(requests) = 0
    BY <1>1, <2>1
  <2>3. requests = <<>>
    BY <1>1, <2>2, EmptySeq
  <2>4. Head(responses) \in Responses /\ Tail(responses) = <<>>
    BY <1>1, <1>2, <2>2, TakeFromOne
  <2> QED
    BY <1>2, <2>3, <2>4 DEF GetResponse, ConsumeResponse
<1>3. CASE responses = <<>>
  BY <1>1, <1>3 DEF GetResponse, ConsumeResponse, UninitializedResponse, Responses
<1> QED
  BY <1>2, <1>3

\* The request the server takes is the one the client waits on, and the only
\* message under way.
LEMMA TakeEffect ==
  ASSUME TransferInv, NEW c \in RequestCode, Takes(c)
  PROVE  /\ pc \in TransferAwaiting
         /\ Awaited(pc) = c
         /\ requests # <<>>
         /\ requests' = <<>>
         /\ responses = <<>>
         /\ connected
<1>1. /\ responses \in Seq(Responses)
      /\ requests \in Seq(Requests)
      /\ connected
      /\ requests # <<>>
      /\ Head(requests).code = c
      /\ requests' = Tail(requests)
  BY DEF TransferInv, TransferTypeOK, Requests, Responses, Takes
<1>2. /\ pc \in TransferAwaiting
      /\ Len(requests) + Len(responses) <= 1
      /\ \A i \in 1 .. Len(requests) : requests[i].code = Awaited(pc)
  BY <1>1 DEF TransferInv, RepliesArePaired
<1>3. Len(requests) \in Nat \ {0} /\ Len(responses) \in Nat
  BY <1>1, EmptySeq, LenProperties
<1>4. Len(requests) <= 1 /\ Len(responses) = 0
  BY <1>2, <1>3
<1>5. responses = <<>>
  BY <1>1, <1>4, EmptySeq
<1>6. Tail(requests) = <<>> /\ Head(requests) = requests[1] /\ Len(requests) = 1
  BY <1>1, <1>4, TakeFromOne
<1> QED
  BY <1>1, <1>2, <1>5, <1>6

\* A reply written to an idle connection is the only message under way; it is
\* whole while the connection lives.
LEMMA ReplyEffect ==
  ASSUME TransferTypeOK, MayCloseAssumption, responses = <<>>,
         NEW code \in ResponseCode, NEW payload \in CRC \cup {EmptyPayload},
         connected, Reply(code, payload)
  PROVE  /\ responses' \in Seq(Responses)
         /\ Len(responses') <= 1
         /\ connected' \in BOOLEAN
         /\ connected' => Len(responses') = 1
         /\ \A i \in 1 .. Len(responses') : responses'[i].code = code
         /\ responses' # <<>> => Head(responses').code = code
         /\ connected' => Head(responses').payload = payload
         /\ sends' = sends
<1> DEFINE whole == [code |-> code, payload |-> payload]
           cut   == [code |-> code, payload |-> EmptyPayload]
<1>1. /\ whole \in Responses /\ whole.code = code /\ whole.payload = payload
      /\ cut \in Responses /\ cut.code = code
  BY DEF Responses
<1>2. responses \in Seq(Responses)
  BY DEF TransferTypeOK, Responses
<1>3. \A m \in Responses :
        /\ Append(responses, m) \in Seq(Responses)
        /\ Len(Append(responses, m)) = 1
        /\ Append(responses, m)[1] = m
        /\ Head(Append(responses, m)) = m
  BY <1>2, AppendToEmpty
<1>4. sends' = sends
  BY DEF Reply
<1>5. \/ responses' = Append(responses, whole) /\ connected' = connected
      \/ MayClose /\ connected' = FALSE /\ responses' = Append(responses, cut)
      \/ MayClose /\ connected' = FALSE /\ responses' = responses
  BY Zenon DEF Reply
<1> HIDE DEF whole, cut
<1>6. CASE responses' = Append(responses, whole) /\ connected' = connected
  BY <1>1, <1>3, <1>4, <1>6
<1>7. CASE MayClose /\ connected' = FALSE /\ responses' = Append(responses, cut)
  <2>1. ~connected' /\ connected' \in BOOLEAN
    BY <1>7
  <2>2. MayClose
    BY <1>7
  <2>3. responses' = Append(responses, cut)
    BY <1>7
  <2> QED
    BY <1>1, <1>3, <1>4, <2>1, <2>2, <2>3
<1>8. CASE MayClose /\ connected' = FALSE /\ responses' = responses
  <2>1. ~connected' /\ connected' \in BOOLEAN
    BY <1>8
  <2>2. MayClose
    BY <1>8
  <2>3. responses' = responses
    BY <1>8
  <2> QED
    BY <1>2, <1>4, <2>1, <2>2, <2>3, EmptySeq
<1> QED
  BY <1>5, <1>6, <1>7, <1>8
-----------------------------------------------------------------------------
(* The three kinds of step, and what they keep of the pairing.             *)

\* The client sends on an idle connection and waits for that reply, or dies.
LEMMA AwaitEffect ==
  ASSUME TransferTypeOK, requests = <<>>, responses' = <<>>, connected' = connected,
         NEW code \in RequestCode, NEW payload \in Content \cup {EmptyPayload},
         NEW await \in TransferAwaiting, Awaited(await) = code,
         SendAndAwait(code, payload, await)
  PROVE  /\ requests' \in Seq(Requests)
         /\ sends' \in [RequestCode -> Nat]
         /\ RepliesArePaired'
         /\ ClosedInv'
         /\ \/ /\ pc' = await
               /\ sends'[code] = sends[code] + 1
               /\ \A c \in RequestCode : c # code => sends'[c] = sends[c]
            \/ pc' = "killed" /\ sends' = sends
<1>1. CASE SendRequest(code, payload) /\ pc' = await
  <2>1. /\ requests' \in Seq(Requests)
        /\ connected => Len(requests') = 1 /\ requests'[1].code = code
        /\ ~connected => requests' = <<>>
        /\ sends' \in [RequestCode -> Nat]
        /\ sends'[code] = sends[code] + 1
        /\ \A c \in RequestCode : c # code => sends'[c] = sends[c]
    BY <1>1, SendEffect
  <2>2. Len(responses') = 0
    OBVIOUS
  <2>3. pc' \in TransferAwaiting /\ Awaited(pc') = code
    BY <1>1
  <2>4. ASSUME connected PROVE RepliesArePaired'
    <3>1. Len(requests') = 1 /\ requests'[1].code = Awaited(pc')
      BY <2>1, <2>3, <2>4
    <3>2. \A i \in 1 .. Len(requests') : i = 1
      BY <3>1
    <3>3. \A i \in 1 .. Len(requests') : requests'[i].code = Awaited(pc')
      BY <3>1, <3>2
    <3> QED
      BY <2>2, <2>3, <3>1, <3>3 DEF RepliesArePaired
  <2>5. ASSUME ~connected PROVE RepliesArePaired'
    BY <2>1, <2>2, <2>3, <2>5 DEF RepliesArePaired
  <2>6. RepliesArePaired'
    BY <2>4, <2>5
  <2>7. ClosedInv'
    BY <2>1 DEF ClosedInv
  <2> QED
    BY <1>1, <2>1, <2>6, <2>7
<1>2. CASE SigPipe /\ pc' = "killed"
  <2>1. requests' = <<>> /\ sends' = sends /\ pc' \notin TransferAwaiting
    BY <1>2 DEF SigPipe, TransferAwaiting, AwaitFile, AwaitCorrect, AwaitResend, AwaitDone
  <2>2. RepliesArePaired' /\ ClosedInv'
    BY <2>1 DEF RepliesArePaired, ClosedInv
  <2>3. requests' \in Seq(Requests) /\ sends' \in [RequestCode -> Nat]
    BY <2>1 DEF TransferTypeOK, Requests
  <2> QED
    BY <1>2, <2>1, <2>2, <2>3
<1> QED
  BY <1>1, <1>2 DEF SendAndAwait

USE DEF REGISTRATION, SEND_PUBLIC_KEY, RECONNECT, SEND_FILE, CRC_CORRECT,
        CRC_INCORRECT_RESEND, CRC_INCORRECT_DONE, RequestCode,
        REGISTRATION_SUCCESS, REGISTRATION_FAILED, RECEIVED_PUBLIC_KEY_SEND_AES,
        FILE_RECEIVED_CRC_OK, CONFIRM_MSG, APPROVE_RECONNECT_SEND_AES,
        RECONNECT_REJECTED, OTHER_CODE, ResponseCode,
        AwaitFile, AwaitCorrect, AwaitResend, AwaitDone, TransferAwaiting, Ended

\* The server takes the request the client waits on and replies.
LEMMA ServerEffect ==
  ASSUME TransferInv, MayCloseAssumption,
         NEW c \in RequestCode, Takes(c),
         NEW code \in AnswersTo(c), NEW payload \in CRC \cup {EmptyPayload},
         Reply(code, payload), pc' = pc
  PROVE  /\ requests' = <<>>
         /\ responses' \in Seq(Responses)
         /\ connected /\ connected' \in BOOLEAN
         /\ RepliesArePaired'
         /\ ClosedInv'
         /\ sends' = sends
         /\ responses = <<>> /\ requests # <<>>
         /\ pc \in TransferAwaiting /\ Awaited(pc) = c
         /\ responses' # <<>> => Head(responses').code = code
         /\ connected' => Head(responses').payload = payload
<1>1. /\ pc \in TransferAwaiting
      /\ Awaited(pc) = c
      /\ requests # <<>>
      /\ requests' = <<>>
      /\ responses = <<>>
      /\ connected
  BY TakeEffect
<1>2. code \in ResponseCode
  BY DEF AnswersTo
<1>3. /\ responses' \in Seq(Responses)
      /\ Len(responses') <= 1
      /\ connected' \in BOOLEAN
      /\ connected' => Len(responses') = 1
      /\ \A i \in 1 .. Len(responses') : responses'[i].code = code
      /\ responses' # <<>> => Head(responses').code = code
      /\ connected' => Head(responses').payload = payload
      /\ sends' = sends
  BY <1>1, <1>2, ReplyEffect DEF TransferInv
<1>4. RepliesArePaired'
  BY <1>1, <1>3 DEF RepliesArePaired
<1>5. ClosedInv'
  BY <1>1 DEF ClosedInv
<1> QED
  BY <1>1, <1>3, <1>4, <1>5
-----------------------------------------------------------------------------
(* The invariant holds initially and every action keeps it.                *)

\* The invariant holds when handleRetrySendFile is called.
LEMMA InitInv ==
  ASSUME TransferAssumption, MayCloseAssumption, TransferInit
  PROVE  TransferInv
<1>1. TransferTypeOK
  <2>1. requests \in Seq(Requests) /\ responses \in Seq(Responses)
    BY DEF TransferInit
  <2>2. connected \in BOOLEAN
    BY DEF TransferInit, MayCloseAssumption
  <2>3. sends \in [RequestCode -> Nat]
    BY DEF TransferInit, NeverSent
  <2>4. /\ pc = "loop" /\ retry_count \in 0 .. MaxRetries
        /\ calculatedCRC \in CRC /\ encrypted \in Content
        /\ file \in Content \cup {NoFile}
        /\ stored = NoFile /\ accepted = NoFile
    BY DEF TransferInit, TransferAssumption
  <2>5. status \in BOOLEAN
    BY DEF TransferInit
  <2> QED
    BY <2>1, <2>2, <2>3, <2>4, <2>5 DEF TransferTypeOK, Requests, Responses
<1>2. RepliesArePaired /\ ClosedInv
  BY DEF TransferInit, RepliesArePaired, ClosedInv
<1>3. RetryInv /\ VerdictInv
  BY DEF TransferInit, RetryInv, VerdictInv, NeverSent, TransferAssumption
<1>4. StoredInv /\ AcceptedInv
  BY DEF TransferInit, StoredInv, AcceptedInv
<1>5. AgreementInv
  BY DEF TransferInit, AgreementInv, ResultAgrees
<1> QED
  BY <1>1, <1>2, <1>3, <1>4, <1>5 DEF TransferInv

\* Sending the file keeps the invariant.
LEMMA AttemptInv ==
  ASSUME TransferAssumption, MayCloseAssumption, TransferInv, Attempt
  PROVE  TransferInv'
<1>1. /\ pc = "loop" /\ requests = <<>> /\ responses = <<>> /\ responses' = <<>>
      /\ connected' = connected /\ accepted = NoFile
      /\ encrypted \in Content \cup {EmptyPayload}
  BY DEF TransferInv, TransferTypeOK, RepliesArePaired, AcceptedInv, Attempt
<1>2. /\ requests' \in Seq(Requests)
      /\ sends' \in [RequestCode -> Nat]
      /\ RepliesArePaired'
      /\ ClosedInv'
      /\ \/ /\ pc' = AwaitFile
            /\ sends'[SEND_FILE] = sends[SEND_FILE] + 1
            /\ \A c \in RequestCode : c # SEND_FILE => sends'[c] = sends[c]
         \/ pc' = "killed" /\ sends' = sends
  BY <1>1, AwaitEffect DEF TransferInv, Attempt, Awaited
<1>3. /\ sends[SEND_FILE] \in Nat /\ sends[CRC_CORRECT] \in Nat
      /\ sends[CRC_INCORRECT_DONE] \in Nat
      /\ retry_count \in 0 .. MaxRetries /\ MaxRetries \in Nat /\ status \in BOOLEAN
  BY DEF TransferInv, TransferTypeOK, TransferAssumption
<1>4. \/ /\ pc' = AwaitFile
         /\ sends'[SEND_FILE] = sends[SEND_FILE] + 1
         /\ sends'[CRC_CORRECT] = sends[CRC_CORRECT]
         /\ sends'[CRC_INCORRECT_DONE] = sends[CRC_INCORRECT_DONE]
      \/ /\ pc' = "killed"
         /\ sends' = sends
  BY <1>2
<1>5. UNCHANGED <<responses, connected, retry_count, status, calculatedCRC,
                  encrypted, stored, accepted, file>>
  BY DEF Attempt, serverVars
<1>6. TransferTypeOK'
  BY <1>2, <1>5 DEF TransferInv, TransferTypeOK, Requests
<1>7. RetryInv'
  BY <1>1, <1>3, <1>4, <1>5 DEF TransferInv, RetryInv, VerdictInv, Attempt
<1>8. VerdictInv'
  BY <1>1, <1>3, <1>4, <1>5 DEF TransferInv, RetryInv, VerdictInv, Attempt
<1>9. StoredInv'
  BY <1>1, <1>4, <1>5 DEF StoredInv
<1>10. AcceptedInv'
  BY <1>1, <1>5 DEF AcceptedInv
<1>11. AgreementInv'
  BY <1>1, <1>2 DEF TransferInv, AgreementInv, ResultAgrees, Attempt
<1> QED
  BY <1>2, <1>6, <1>7, <1>8, <1>9, <1>10, <1>11 DEF TransferInv

\* Giving up keeps it: every attempt was used.
LEMMA GiveUpInv ==
  ASSUME TransferAssumption, MayCloseAssumption, TransferInv, GiveUp
  PROVE  TransferInv'
<1>1. /\ pc = "loop" /\ requests = <<>> /\ responses = <<>> /\ responses' = <<>>
      /\ connected' = connected /\ accepted = NoFile
      /\ EmptyPayload \in Content \cup {EmptyPayload}
  BY DEF TransferInv, TransferTypeOK, RepliesArePaired, AcceptedInv, GiveUp
<1>2. /\ requests' \in Seq(Requests)
      /\ sends' \in [RequestCode -> Nat]
      /\ RepliesArePaired'
      /\ ClosedInv'
      /\ \/ /\ pc' = AwaitDone
            /\ sends'[CRC_INCORRECT_DONE] = sends[CRC_INCORRECT_DONE] + 1
            /\ \A c \in RequestCode : c # CRC_INCORRECT_DONE => sends'[c] = sends[c]
         \/ pc' = "killed" /\ sends' = sends
  BY <1>1, AwaitEffect DEF TransferInv, GiveUp, Awaited
<1>3. /\ sends[SEND_FILE] \in Nat /\ sends[CRC_CORRECT] \in Nat
      /\ sends[CRC_INCORRECT_DONE] \in Nat
      /\ retry_count \in 0 .. MaxRetries /\ MaxRetries \in Nat /\ status \in BOOLEAN
  BY DEF TransferInv, TransferTypeOK, TransferAssumption
<1>4. \/ /\ pc' = AwaitDone
         /\ sends'[CRC_INCORRECT_DONE] = sends[CRC_INCORRECT_DONE] + 1
         /\ sends'[SEND_FILE] = sends[SEND_FILE]
         /\ sends'[CRC_CORRECT] = sends[CRC_CORRECT]
      \/ /\ pc' = "killed"
         /\ sends' = sends
  BY <1>2
<1>5. UNCHANGED <<responses, connected, retry_count, status, calculatedCRC,
                  encrypted, stored, accepted, file>>
  BY DEF GiveUp, serverVars
<1>6. TransferTypeOK'
  BY <1>2, <1>5 DEF TransferInv, TransferTypeOK, Requests
<1>7. RetryInv'
  BY <1>1, <1>3, <1>4, <1>5 DEF TransferInv, RetryInv, VerdictInv, GiveUp
<1>8. VerdictInv'
  BY <1>1, <1>3, <1>4, <1>5 DEF TransferInv, RetryInv, VerdictInv, GiveUp
<1>9. StoredInv'
  BY <1>1, <1>2 DEF TransferInv, StoredInv, GiveUp
<1>10. AcceptedInv'
  BY <1>1, <1>2 DEF TransferInv, AcceptedInv, GiveUp, serverVars
<1>11. AgreementInv'
  BY <1>1, <1>2 DEF TransferInv, AgreementInv, ResultAgrees, GiveUp
<1> QED
  BY <1>2, <1>6, <1>7, <1>8, <1>9, <1>10, <1>11 DEF TransferInv

\* A refused attempt keeps it: the loop counts it.
LEMMA FileRefusedInv ==
  ASSUME TransferAssumption, MayCloseAssumption, TransferInv, FileRefused
  PROVE  TransferInv'
<1>1. PICK r \in GetResponse : r.code # FILE_RECEIVED_CRC_OK
  BY DEF FileRefused
<1>2. /\ pc = AwaitFile /\ pc \in TransferAwaiting /\ pc' = "loop"
      /\ responses' = <<>> /\ requests = <<>>
      /\ connected => responses # <<>> /\ r = Head(responses)
  BY ReceiveEffect DEF FileRefused
<1>3. /\ sends[SEND_FILE] \in Nat /\ sends[CRC_CORRECT] \in Nat
      /\ sends[CRC_INCORRECT_DONE] \in Nat
      /\ retry_count \in 0 .. MaxRetries /\ MaxRetries \in Nat
  BY DEF TransferInv, TransferTypeOK, TransferAssumption
<1>4. /\ UNCHANGED <<requests, connected, sends, status, calculatedCRC,
                     encrypted, stored, accepted, file>>
      /\ requests' = <<>>
      /\ retry_count' = retry_count + 1
  BY <1>2 DEF FileRefused, serverVars
<1>5. /\ RepliesArePaired'
      /\ ClosedInv'
  BY <1>2, <1>4 DEF RepliesArePaired, ClosedInv
<1>6. RetryInv'
  BY <1>2, <1>3, <1>4 DEF TransferInv, RetryInv, VerdictInv
<1>7. VerdictInv'
  BY <1>1, <1>2, <1>3, <1>4 DEF TransferInv, VerdictInv
<1>8. TransferTypeOK'
  <2>1. retry_count' \in 0 .. MaxRetries
    BY <1>2, <1>3, <1>4 DEF TransferInv, RetryInv
  <2>2. status' \in BOOLEAN
    BY <1>4 DEF TransferInv, TransferTypeOK
  <2> QED
    BY <1>2, <1>4, <2>1, <2>2 DEF TransferInv, TransferTypeOK
<1>9. StoredInv'
  BY <1>2, <1>4 DEF TransferInv, StoredInv
<1>10. AcceptedInv'
  BY <1>2, <1>4 DEF TransferInv, AcceptedInv
<1>11. AgreementInv'
  BY <1>2, <1>4 DEF TransferInv, AgreementInv, ResultAgrees, AcceptedInv, VerdictInv
<1> QED
  BY <1>5, <1>6, <1>7, <1>8, <1>9, <1>10, <1>11 DEF TransferInv

\* So does the end of an attempt whose checksum was wrong.
LEMMA ResendAnsweredInv ==
  ASSUME TransferAssumption, MayCloseAssumption, TransferInv, ResendAnswered
  PROVE  TransferInv'
<1>1. PICK r \in GetResponse : TRUE
  BY DEF ResendAnswered
<1>2. /\ pc = AwaitResend /\ pc \in TransferAwaiting /\ pc' = "loop"
      /\ responses' = <<>> /\ requests = <<>>
      /\ connected => responses # <<>> /\ r = Head(responses)
  BY ReceiveEffect DEF ResendAnswered
<1>3. /\ sends[SEND_FILE] \in Nat /\ sends[CRC_CORRECT] \in Nat
      /\ sends[CRC_INCORRECT_DONE] \in Nat
      /\ retry_count \in 0 .. MaxRetries /\ MaxRetries \in Nat
  BY DEF TransferInv, TransferTypeOK, TransferAssumption
<1>4. /\ UNCHANGED <<requests, connected, sends, status, calculatedCRC,
                     encrypted, stored, accepted, file>>
      /\ requests' = <<>>
      /\ retry_count' = retry_count + 1
  BY <1>2 DEF ResendAnswered, serverVars
<1>5. /\ RepliesArePaired'
      /\ ClosedInv'
  BY <1>2, <1>4 DEF RepliesArePaired, ClosedInv
<1>6. RetryInv'
  BY <1>2, <1>3, <1>4 DEF TransferInv, RetryInv, VerdictInv
<1>7. VerdictInv'
  BY <1>1, <1>2, <1>3, <1>4 DEF TransferInv, VerdictInv
<1>8. TransferTypeOK'
  <2>1. retry_count' \in 0 .. MaxRetries
    BY <1>2, <1>3, <1>4 DEF TransferInv, RetryInv
  <2>2. status' \in BOOLEAN
    BY <1>4 DEF TransferInv, TransferTypeOK
  <2> QED
    BY <1>2, <1>4, <2>1, <2>2 DEF TransferInv, TransferTypeOK
<1>9. StoredInv'
  BY <1>2, <1>4 DEF TransferInv, StoredInv
<1>10. AcceptedInv'
  BY <1>2, <1>4 DEF TransferInv, AcceptedInv
<1>11. AgreementInv'
  BY <1>2, <1>4 DEF TransferInv, AgreementInv, ResultAgrees, AcceptedInv, VerdictInv
<1> QED
  BY <1>5, <1>6, <1>7, <1>8, <1>9, <1>10, <1>11 DEF TransferInv

\* The result that is returned agrees with what the server did.
LEMMA CorrectAnsweredInv ==
  ASSUME TransferAssumption, MayCloseAssumption, TransferInv, CorrectAnswered
  PROVE  TransferInv'
<1>1. PICK r \in GetResponse : status' = IF r.code = CONFIRM_MSG THEN TRUE ELSE status
  BY DEF CorrectAnswered
<1>2. /\ pc = AwaitCorrect /\ pc \in TransferAwaiting /\ pc' = "returned"
      /\ responses' = <<>> /\ requests = <<>>
      /\ connected => responses # <<>> /\ r = Head(responses)
  BY ReceiveEffect DEF CorrectAnswered
<1>3. /\ sends[SEND_FILE] \in Nat /\ sends[CRC_CORRECT] \in Nat
      /\ sends[CRC_INCORRECT_DONE] \in Nat
      /\ retry_count \in 0 .. MaxRetries /\ MaxRetries \in Nat
  BY DEF TransferInv, TransferTypeOK, TransferAssumption
<1>4. /\ UNCHANGED <<requests, connected, sends, retry_count, calculatedCRC,
                     encrypted, stored, accepted, file>>
      /\ requests' = <<>>
  BY <1>2 DEF CorrectAnswered, serverVars
<1>5. /\ RepliesArePaired'
      /\ ClosedInv'
  BY <1>2, <1>4 DEF RepliesArePaired, ClosedInv
<1>6. RetryInv'
  BY <1>2, <1>3, <1>4 DEF TransferInv, RetryInv, VerdictInv
<1>7. VerdictInv'
  BY <1>1, <1>2, <1>3, <1>4 DEF TransferInv, VerdictInv
<1>8. TransferTypeOK'
  <2>1. retry_count' \in 0 .. MaxRetries
    BY <1>2, <1>3, <1>4 DEF TransferInv, RetryInv
  <2>2. status' \in BOOLEAN
    <3>1. status \in BOOLEAN
      BY DEF TransferInv, TransferTypeOK
    <3> HIDE DEF CONFIRM_MSG
    <3> QED
      BY <1>1, <3>1
  <2> QED
    BY <1>2, <1>4, <2>1, <2>2 DEF TransferInv, TransferTypeOK
<1>9. StoredInv'
  BY <1>2, <1>4 DEF TransferInv, StoredInv
<1>10. AcceptedInv'
  BY <1>2, <1>4 DEF TransferInv, AcceptedInv
<1>11. AgreementInv'
  <2>1. SUFFICES ASSUME connected PROVE ResultAgrees'
    BY <1>2, <1>4 DEF AgreementInv, ResultAgrees
  <2>2. r.code = CONFIRM_MSG <=> accepted # NoFile
    BY <1>2, <2>1 DEF TransferInv, AgreementInv
  <2>3. ~status
    BY <1>2 DEF TransferInv, VerdictInv
  <2>4. status' <=> r.code = CONFIRM_MSG
    BY <1>1, <2>3
  <2> QED
    BY <1>2, <1>4, <2>2, <2>4 DEF ResultAgrees
<1> QED
  BY <1>5, <1>6, <1>7, <1>8, <1>9, <1>10, <1>11 DEF TransferInv

\* After giving up, false is returned and nothing was accepted.
LEMMA DoneAnsweredInv ==
  ASSUME TransferAssumption, MayCloseAssumption, TransferInv, DoneAnswered
  PROVE  TransferInv'
<1>1. PICK r \in GetResponse : TRUE
  BY DEF DoneAnswered
<1>2. /\ pc = AwaitDone /\ pc \in TransferAwaiting /\ pc' = "returned"
      /\ responses' = <<>> /\ requests = <<>>
      /\ connected => responses # <<>> /\ r = Head(responses)
  BY ReceiveEffect DEF DoneAnswered
<1>3. /\ sends[SEND_FILE] \in Nat /\ sends[CRC_CORRECT] \in Nat
      /\ sends[CRC_INCORRECT_DONE] \in Nat
      /\ retry_count \in 0 .. MaxRetries /\ MaxRetries \in Nat
  BY DEF TransferInv, TransferTypeOK, TransferAssumption
<1>4. /\ UNCHANGED <<requests, connected, sends, retry_count, status, calculatedCRC,
                     encrypted, stored, accepted, file>>
      /\ requests' = <<>>
  BY <1>2 DEF DoneAnswered, serverVars
<1>5. /\ RepliesArePaired'
      /\ ClosedInv'
  BY <1>2, <1>4 DEF RepliesArePaired, ClosedInv
<1>6. RetryInv'
  BY <1>2, <1>3, <1>4 DEF TransferInv, RetryInv, VerdictInv
<1>7. VerdictInv'
  BY <1>1, <1>2, <1>3, <1>4 DEF TransferInv, VerdictInv
<1>8. TransferTypeOK'
  <2>1. retry_count' \in 0 .. MaxRetries
    BY <1>2, <1>3, <1>4 DEF TransferInv, RetryInv
  <2>2. status' \in BOOLEAN
    BY <1>4 DEF TransferInv, TransferTypeOK
  <2> QED
    BY <1>2, <1>4, <2>1, <2>2 DEF TransferInv, TransferTypeOK
<1>9. StoredInv'
  BY <1>2, <1>4 DEF TransferInv, StoredInv
<1>10. AcceptedInv'
  BY <1>2, <1>4 DEF TransferInv, AcceptedInv
<1>11. AgreementInv'
  BY <1>2, <1>4 DEF TransferInv, AgreementInv, ResultAgrees, AcceptedInv, VerdictInv
<1> QED
  BY <1>5, <1>6, <1>7, <1>8, <1>9, <1>10, <1>11 DEF TransferInv

\* A checksum is a checksum, also when the file cannot be read.
LEMMA ReadCrcType ==
  ASSUME TransferAssumption, TransferTypeOK
  PROVE  ReadCrc \in CRC
BY DEF TransferAssumption, TransferTypeOK, ReadCrc

\* Reporting the checksum correct keeps it: the stored file has that checksum.
LEMMA CrcMatchesInv ==
  ASSUME TransferAssumption, MayCloseAssumption, TransferInv, CrcMatches
  PROVE  TransferInv'
<1>1. PICK r \in GetResponse :
        /\ r.code = FILE_RECEIVED_CRC_OK
        /\ \E receivedCRC \in ReceivedCRC(r) : receivedCRC = ReadCrc
  BY DEF CrcMatches
<1>2. /\ pc = AwaitFile /\ pc \in TransferAwaiting
      /\ responses' = <<>> /\ requests = <<>>
      /\ connected => responses # <<>> /\ r = Head(responses)
      /\ calculatedCRC' = ReadCrc /\ accepted = NoFile
      /\ UNCHANGED <<connected, retry_count, status, encrypted, stored, accepted, file>>
  BY ReceiveEffect DEF CrcMatches, serverVars, TransferInv, AcceptedInv
<1>3. /\ sends[SEND_FILE] \in Nat /\ sends[CRC_CORRECT] \in Nat
      /\ sends[CRC_INCORRECT_DONE] \in Nat
      /\ retry_count \in 0 .. MaxRetries /\ MaxRetries \in Nat
  BY DEF TransferInv, TransferTypeOK, TransferAssumption
<1>4. /\ requests' \in Seq(Requests)
      /\ sends' \in [RequestCode -> Nat]
      /\ RepliesArePaired'
      /\ ClosedInv'
      /\ \/ /\ pc' = AwaitCorrect
            /\ sends'[CRC_CORRECT] = sends[CRC_CORRECT] + 1
            /\ \A c \in RequestCode : c # CRC_CORRECT => sends'[c] = sends[c]
         \/ pc' = "killed" /\ sends' = sends
  BY <1>2, AwaitEffect DEF TransferInv, CrcMatches, Awaited
<1>5. \/ /\ pc' = AwaitCorrect
         /\ sends'[CRC_CORRECT] = sends[CRC_CORRECT] + 1
         /\ sends'[SEND_FILE] = sends[SEND_FILE]
         /\ sends'[CRC_INCORRECT_DONE] = sends[CRC_INCORRECT_DONE]
      \/ /\ pc' = "killed"
         /\ sends' = sends
  BY <1>4
<1>6. RetryInv'
  BY <1>2, <1>3, <1>5 DEF TransferInv, RetryInv, VerdictInv
<1>7. VerdictInv'
  BY <1>2, <1>3, <1>5 DEF TransferInv, RetryInv, VerdictInv
<1>8. TransferTypeOK'
  <2>1. calculatedCRC' \in CRC /\ responses' \in Seq(Responses)
    BY <1>2, ReadCrcType DEF TransferInv
  <2>2. pc' \in {"loop"} \cup TransferAwaiting \cup Ended
    BY <1>5
  <2> QED
    BY <1>2, <1>4, <2>1, <2>2 DEF TransferInv, TransferTypeOK, Requests, Responses
<1>9. StoredInv'
  <2>1. SUFFICES ASSUME connected', pc' = AwaitCorrect
                 PROVE  stored' \in Content /\ CrcOf[stored'] = calculatedCRC'
    BY <1>2, <1>5 DEF StoredInv
  <2>2. stored \in Content /\ r.payload = CrcOf[stored]
    BY <1>1, <1>2, <2>1 DEF TransferInv, StoredInv
  <2>3. r.payload # EmptyPayload
    BY <2>2 DEF TransferAssumption
  <2> QED
    BY <1>1, <1>2, <2>2, <2>3 DEF ReceivedCRC
<1>10. AcceptedInv'
  BY <1>2 DEF AcceptedInv
<1>11. AgreementInv'
  BY <1>2, <1>5 DEF TransferInv, AgreementInv, ResultAgrees
<1> QED
  BY <1>4, <1>6, <1>7, <1>8, <1>9, <1>10, <1>11 DEF TransferInv

\* So does asking for a re-send.
LEMMA CrcDiffersInv ==
  ASSUME TransferAssumption, MayCloseAssumption, TransferInv, CrcDiffers
  PROVE  TransferInv'
<1>1. PICK r \in GetResponse :
        /\ r.code = FILE_RECEIVED_CRC_OK
        /\ \E receivedCRC \in ReceivedCRC(r) : receivedCRC # ReadCrc
  BY DEF CrcDiffers
<1>2. /\ pc = AwaitFile /\ pc \in TransferAwaiting
      /\ responses' = <<>> /\ requests = <<>>
      /\ connected => responses # <<>> /\ r = Head(responses)
      /\ calculatedCRC' = ReadCrc /\ accepted = NoFile
      /\ UNCHANGED <<connected, retry_count, status, encrypted, stored, accepted, file>>
  BY ReceiveEffect DEF CrcDiffers, serverVars, TransferInv, AcceptedInv
<1>3. /\ sends[SEND_FILE] \in Nat /\ sends[CRC_CORRECT] \in Nat
      /\ sends[CRC_INCORRECT_DONE] \in Nat
      /\ retry_count \in 0 .. MaxRetries /\ MaxRetries \in Nat
  BY DEF TransferInv, TransferTypeOK, TransferAssumption
<1>4. /\ requests' \in Seq(Requests)
      /\ sends' \in [RequestCode -> Nat]
      /\ RepliesArePaired'
      /\ ClosedInv'
      /\ \/ /\ pc' = AwaitResend
            /\ sends'[CRC_INCORRECT_RESEND] = sends[CRC_INCORRECT_RESEND] + 1
            /\ \A c \in RequestCode : c # CRC_INCORRECT_RESEND => sends'[c] = sends[c]
         \/ pc' = "killed" /\ sends' = sends
  BY <1>2, AwaitEffect DEF TransferInv, CrcDiffers, Awaited
<1>5. \/ /\ pc' = AwaitResend
         /\ sends'[SEND_FILE] = sends[SEND_FILE]
         /\ sends'[CRC_CORRECT] = sends[CRC_CORRECT]
         /\ sends'[CRC_INCORRECT_DONE] = sends[CRC_INCORRECT_DONE]
      \/ /\ pc' = "killed"
         /\ sends' = sends
  BY <1>4
<1>6. RetryInv'
  BY <1>2, <1>3, <1>5 DEF TransferInv, RetryInv, VerdictInv
<1>7. VerdictInv'
  BY <1>2, <1>3, <1>5 DEF TransferInv, RetryInv, VerdictInv
<1>8. TransferTypeOK'
  <2>1. calculatedCRC' \in CRC /\ responses' \in Seq(Responses)
    BY <1>2, ReadCrcType DEF TransferInv
  <2>2. pc' \in {"loop"} \cup TransferAwaiting \cup Ended
    BY <1>5
  <2> QED
    BY <1>2, <1>4, <2>1, <2>2 DEF TransferInv, TransferTypeOK, Requests, Responses
<1>9. StoredInv'
  BY <1>2, <1>5 DEF StoredInv
<1>10. AcceptedInv'
  BY <1>2 DEF AcceptedInv
<1>11. AgreementInv'
  BY <1>2, <1>5 DEF TransferInv, AgreementInv, ResultAgrees
<1> QED
  BY <1>4, <1>6, <1>7, <1>8, <1>9, <1>10, <1>11 DEF TransferInv

\* What the server stores is what it reports.
LEMMA ServerStoresInv ==
  ASSUME TransferAssumption, MayCloseAssumption, TransferInv, ServerStores
  PROVE  TransferInv'
<1>1. /\ stored' \in Content /\ CrcOf[stored'] \in CRC
      /\ Takes(SEND_FILE)
      /\ Reply(FILE_RECEIVED_CRC_OK, CrcOf[stored'])
  BY DEF ServerStores, TransferAssumption
<1>2. UNCHANGED <<pc, retry_count, status, calculatedCRC, encrypted, accepted, file>>
  BY DEF ServerStores, clientVars
<1>3. /\ requests' = <<>>
      /\ responses' \in Seq(Responses)
      /\ connected /\ connected' \in BOOLEAN
      /\ RepliesArePaired'
      /\ ClosedInv'
      /\ sends' = sends
      /\ responses = <<>> /\ requests # <<>>
      /\ pc \in TransferAwaiting /\ Awaited(pc) = SEND_FILE
      /\ responses' # <<>> => Head(responses').code = FILE_RECEIVED_CRC_OK
      /\ connected' => Head(responses').payload = CrcOf[stored']
  BY <1>1, <1>2, ServerEffect DEF AnswersTo
<1>4. accepted = NoFile
  BY <1>3 DEF TransferInv, AcceptedInv
<1>5. pc = AwaitFile
  BY <1>3 DEF Awaited
<1>6. TransferTypeOK'
  BY <1>1, <1>2, <1>3, <1>5 DEF TransferInv, TransferTypeOK, Requests, Responses
<1>7. RetryInv' /\ VerdictInv'
  BY <1>2, <1>3 DEF TransferInv, RetryInv, VerdictInv
<1>8. StoredInv'
  BY <1>1, <1>2, <1>3, <1>5 DEF StoredInv
<1>9. AcceptedInv'
  BY <1>2, <1>4 DEF AcceptedInv
<1>10. AgreementInv'
  BY <1>2, <1>3, <1>5 DEF AgreementInv, ResultAgrees
<1> QED
  BY <1>3, <1>6, <1>7, <1>8, <1>9, <1>10 DEF TransferInv

\* The server accepts what it stored, whose checksum was compared.
LEMMA ServerAcceptsInv ==
  ASSUME TransferAssumption, MayCloseAssumption, TransferInv, ServerAccepts
  PROVE  TransferInv'
<1>1. accepted' = stored /\ Takes(CRC_CORRECT) /\ Reply(CONFIRM_MSG, EmptyPayload)
  BY DEF ServerAccepts
<1>2. UNCHANGED <<pc, retry_count, status, calculatedCRC, encrypted, stored, file>>
  BY DEF ServerAccepts, clientVars
<1>3. /\ requests' = <<>>
      /\ responses' \in Seq(Responses)
      /\ connected /\ connected' \in BOOLEAN
      /\ RepliesArePaired'
      /\ ClosedInv'
      /\ sends' = sends
      /\ responses = <<>> /\ requests # <<>>
      /\ pc \in TransferAwaiting /\ Awaited(pc) = CRC_CORRECT
      /\ responses' # <<>> => Head(responses').code = CONFIRM_MSG
      /\ connected' => Head(responses').payload = EmptyPayload
  BY <1>1, <1>2, ServerEffect DEF AnswersTo
<1>4. accepted = NoFile
  BY <1>3 DEF TransferInv, AcceptedInv
<1>5. /\ pc = AwaitCorrect
      /\ stored \in Content /\ CrcOf[stored] = calculatedCRC
  BY <1>3 DEF Awaited, TransferInv, StoredInv
<1>6. TransferTypeOK'
  BY <1>1, <1>2, <1>3, <1>5 DEF TransferInv, TransferTypeOK, Requests, Responses
<1>7. RetryInv' /\ VerdictInv'
  BY <1>2, <1>3 DEF TransferInv, RetryInv, VerdictInv
<1>8. StoredInv'
  BY <1>2, <1>5 DEF StoredInv
<1>9. AcceptedInv'
  BY <1>1, <1>2, <1>3, <1>5 DEF AcceptedInv, TransferInv, VerdictInv
<1>10. AgreementInv'
  BY <1>1, <1>2, <1>3, <1>5 DEF AgreementInv, ResultAgrees, TransferAssumption
<1> QED
  BY <1>3, <1>6, <1>7, <1>8, <1>9, <1>10 DEF TransferInv

\* An acknowledgement tells the client nothing new.
LEMMA ServerAcknowledgesInv ==
  ASSUME TransferAssumption, MayCloseAssumption, TransferInv, ServerAcknowledges
  PROVE  TransferInv'
<1>1. PICK c \in {CRC_INCORRECT_RESEND, CRC_INCORRECT_DONE} :
        Takes(c) /\ Reply(CONFIRM_MSG, EmptyPayload)
  BY DEF ServerAcknowledges
<1>2. UNCHANGED <<pc, retry_count, status, calculatedCRC, encrypted, stored, accepted, file>>
  BY DEF ServerAcknowledges, clientVars, serverVars
<1>3. /\ requests' = <<>>
      /\ responses' \in Seq(Responses)
      /\ connected /\ connected' \in BOOLEAN
      /\ RepliesArePaired'
      /\ ClosedInv'
      /\ sends' = sends
      /\ responses = <<>> /\ requests # <<>>
      /\ pc \in TransferAwaiting /\ Awaited(pc) = c
      /\ responses' # <<>> => Head(responses').code = CONFIRM_MSG
      /\ connected' => Head(responses').payload = EmptyPayload
  BY <1>1, <1>2, ServerEffect DEF AnswersTo
<1>4. accepted = NoFile
  BY <1>3 DEF TransferInv, AcceptedInv
<1>5. pc \in {AwaitResend, AwaitDone}
  BY <1>1, <1>3 DEF Awaited
<1>6. TransferTypeOK'
  BY <1>1, <1>2, <1>3, <1>5 DEF TransferInv, TransferTypeOK, Requests, Responses
<1>7. RetryInv' /\ VerdictInv'
  BY <1>2, <1>3 DEF TransferInv, RetryInv, VerdictInv
<1>8. StoredInv'
  BY <1>2, <1>5 DEF StoredInv
<1>9. AcceptedInv'
  BY <1>2, <1>4 DEF AcceptedInv
<1>10. AgreementInv'
  BY <1>2, <1>3, <1>5 DEF AgreementInv, ResultAgrees
<1> QED
  BY <1>3, <1>6, <1>7, <1>8, <1>9, <1>10 DEF TransferInv

\* A refusal is no confirmation.
LEMMA ServerRefusesInv ==
  ASSUME TransferAssumption, MayCloseAssumption, TransferInv, ServerRefuses
  PROVE  TransferInv'
<1>1. PICK c \in {SEND_FILE, CRC_CORRECT, CRC_INCORRECT_RESEND, CRC_INCORRECT_DONE} :
        Takes(c) /\ Reply(OTHER_CODE, EmptyPayload)
  BY DEF ServerRefuses
<1>2. UNCHANGED <<pc, retry_count, status, calculatedCRC, encrypted, stored, accepted, file>>
  BY DEF ServerRefuses, clientVars, serverVars
<1>3. /\ requests' = <<>>
      /\ responses' \in Seq(Responses)
      /\ connected /\ connected' \in BOOLEAN
      /\ RepliesArePaired'
      /\ ClosedInv'
      /\ sends' = sends
      /\ responses = <<>> /\ requests # <<>>
      /\ pc \in TransferAwaiting /\ Awaited(pc) = c
      /\ responses' # <<>> => Head(responses').code = OTHER_CODE
      /\ connected' => Head(responses').payload = EmptyPayload
  BY <1>1, <1>2, ServerEffect DEF AnswersTo
<1>4. accepted = NoFile
  BY <1>3 DEF TransferInv, AcceptedInv
<1>6. TransferTypeOK'
  BY <1>1, <1>2, <1>3 DEF TransferInv, TransferTypeOK, Requests, Responses
<1>7. RetryInv' /\ VerdictInv'
  BY <1>2, <1>3 DEF TransferInv, RetryInv, VerdictInv
<1>8. StoredInv'
  BY <1>2, <1>3 DEF TransferInv, StoredInv
<1>9. AcceptedInv'
  BY <1>2, <1>4 DEF AcceptedInv
<1>10. AgreementInv'
  BY <1>2, <1>3, <1>4 DEF TransferInv, AgreementInv, ResultAgrees
<1> QED
  BY <1>3, <1>6, <1>7, <1>8, <1>9, <1>10 DEF TransferInv

\* A close drops the requests that are under way.
LEMMA ServerGoesInv ==
  ASSUME TransferAssumption, TransferInv, ServerGoes
  PROVE  TransferInv'
<1>1. /\ MayClose /\ connected' = FALSE /\ requests' = <<>>
      /\ UNCHANGED <<responses, sends, pc, retry_count, status, calculatedCRC,
                     encrypted, stored, accepted, file>>
  BY DEF ServerGoes, ServerCloses, clientVars, serverVars
<1>2. ~connected' /\ connected' \in BOOLEAN
  BY <1>1
<1>3. TransferTypeOK'
  BY <1>1, <1>2 DEF TransferInv, TransferTypeOK
<1>4. RepliesArePaired'
  <2>1. responses \in Seq(Responses) /\ requests \in Seq(Requests)
    BY DEF TransferInv, TransferTypeOK, Requests, Responses
  <2>2. Len(requests) \in Nat /\ Len(responses) \in Nat /\ Len(requests') = 0
    BY <1>1, <2>1, LenProperties
  <2> QED
    BY <1>1, <1>2, <2>2 DEF TransferInv, RepliesArePaired
<1>5. ClosedInv' /\ StoredInv'
  BY <1>1, <1>2 DEF ClosedInv, StoredInv
<1>6. RetryInv' /\ VerdictInv'
  BY <1>1 DEF TransferInv, RetryInv, VerdictInv
<1>7. AcceptedInv'
  BY <1>1 DEF TransferInv, AcceptedInv
<1>8. AgreementInv'
  BY <1>2 DEF AgreementInv, ResultAgrees
<1> QED
  BY <1>3, <1>4, <1>5, <1>6, <1>7, <1>8 DEF TransferInv

\* A step of the client's thread is one from the loop or from a reply, and leaves
\* the connection, the server and the file alone.
LEMMA ClientSteps ==
  ASSUME TransferClient
  PROVE  /\ pc \in {"loop"} \cup TransferAwaiting
         /\ UNCHANGED <<connected, stored, accepted, file>>
<1>1. CASE Attempt
  BY <1>1 DEF Attempt, serverVars
<1>2. CASE GiveUp
  BY <1>2 DEF GiveUp, serverVars
<1>3. CASE FileRefused
  BY <1>3 DEF FileRefused, serverVars
<1>4. CASE CrcMatches
  BY <1>4 DEF CrcMatches, serverVars
<1>5. CASE CrcDiffers
  BY <1>5 DEF CrcDiffers, serverVars
<1>6. CASE CorrectAnswered
  BY <1>6 DEF CorrectAnswered, serverVars
<1>7. CASE ResendAnswered
  BY <1>7 DEF ResendAnswered, serverVars
<1>8. CASE DoneAnswered
  BY <1>8 DEF DoneAnswered, serverVars
<1> QED
  BY <1>1, <1>2, <1>3, <1>4, <1>5, <1>6, <1>7, <1>8 DEF TransferClient

\* Every step of the transfer, and none, keeps the invariant.
LEMMA StepInv ==
  ASSUME TransferAssumption, MayCloseAssumption,
         TransferInv, [TransferNext]_transferVars
  PROVE  TransferInv'
<1>1. CASE TransferClient
  BY <1>1, AttemptInv, GiveUpInv, FileRefusedInv, CrcMatchesInv, CrcDiffersInv,
     CorrectAnsweredInv, ResendAnsweredInv, DoneAnsweredInv
  DEF TransferClient
<1>2. CASE TransferServer
  BY <1>2, ServerStoresInv, ServerAcceptsInv, ServerAcknowledgesInv, ServerRefusesInv
  DEF TransferServer
<1>3. CASE ServerGoes
  BY <1>3, ServerGoesInv
<1>4. CASE FileChanges
  <2>1. /\ file' \in Content \cup {NoFile}
        /\ UNCHANGED <<requests, responses, connected, sends, pc, retry_count,
                       status, calculatedCRC, encrypted, stored, accepted>>
    BY <1>4 DEF FileChanges, connVars, clientVars, serverVars
  <2>2. TransferTypeOK'
    BY <2>1 DEF TransferInv, TransferTypeOK
  <2>3. /\ RepliesArePaired' /\ ClosedInv' /\ RetryInv' /\ VerdictInv'
        /\ StoredInv' /\ AcceptedInv' /\ AgreementInv'
    BY <2>1 DEF TransferInv, RepliesArePaired, ClosedInv, RetryInv, VerdictInv,
                StoredInv, AcceptedInv, AgreementInv, ResultAgrees
  <2> QED
    BY <2>2, <2>3 DEF TransferInv
<1>5. CASE UNCHANGED transferVars
  BY <1>5 DEF transferVars, connVars, clientVars, serverVars, TransferInv,
       TransferTypeOK, RepliesArePaired, ClosedInv, RetryInv, VerdictInv,
       StoredInv, AcceptedInv, AgreementInv, ResultAgrees
<1> QED
  BY <1>1, <1>2, <1>3, <1>4, <1>5 DEF TransferNext

-----------------------------------------------------------------------------
(* The theorems.                                                           *)

\* The inductive invariant holds in every state of every transfer, for every
\* set of contents, every checksum function, every maxRetries, and whether
\* or not the server may close.
THEOREM TransferInvariance == TransferSpec => []TransferInv
<1>1. TransferInit => TransferInv
  BY InitInv, TransferAssumption, MayCloseAssumption
<1>2. TransferInv /\ [TransferNext]_transferVars => TransferInv'
  BY StepInv, TransferAssumption, MayCloseAssumption
<1> QED
  BY <1>1, <1>2, PTL DEF TransferSpec

\* Every variable of handleRetrySendFile's model keeps its type; in
\* particular retry_count never passes maxRetries.
THEOREM TypeCorrectness == TransferSpec => []TransferTypeOK
<1>1. TransferInv => TransferTypeOK
  BY DEF TransferInv
<1> QED
  BY <1>1, TransferInvariance, PTL

\* No reply is ever taken for the answer to another request: each getResponse
\* of handleRetrySendFile and sendCRCStatusRequest empties the connection.
THEOREM RepliesStayPaired == TransferSpec => []RepliesArePaired
<1>1. TransferInv => RepliesArePaired
  BY DEF TransferInv
<1> QED
  BY <1>1, TransferInvariance, PTL

\* What the server accepts has the checksum the client calculated.
THEOREM AcceptedIsChecked == TransferSpec => []AcceptedWasChecked
<1>1. TransferInv => AcceptedWasChecked
  BY DEF TransferInv, AcceptedInv, AcceptedWasChecked
<1> QED
  BY <1>1, TransferInvariance, PTL

\* If the connection is still open at the end, handleRetrySendFile returns
\* true exactly for a file the server accepted.
THEOREM ResultIsAgreed == TransferSpec => []ResultAgrees
<1>1. TransferInv => ResultAgrees
  BY DEF TransferInv, AgreementInv
<1> QED
  BY <1>1, TransferInvariance, PTL

\* A client whose CRC_CORRECT reached the server only waits for the reply, and
\* the server has no request left: nothing undoes what was accepted.
THEOREM AcceptedStays == TransferSpec => AcceptedIsFinal
<1>1. ASSUME TransferInv, [TransferNext]_transferVars, accepted # NoFile
      PROVE  stored' = stored /\ accepted' = accepted /\ sends'[CRC_INCORRECT_DONE] = 0
  <2>1. /\ pc \in {AwaitCorrect, "returned"} /\ requests = <<>>
        /\ sends[CRC_INCORRECT_DONE] = 0
    BY <1>1, SMTT(30) DEF TransferInv, AcceptedInv, VerdictInv, TransferTypeOK
  <2>2. ~TransferServer
    BY <2>1 DEF TransferServer, ServerStores, ServerAccepts, ServerAcknowledges,
                ServerRefuses, Takes
  <2>3. CASE TransferClient
    <3>1. CorrectAnswered
      BY <2>1, <2>3 DEF TransferClient, Attempt, GiveUp, FileRefused, CrcMatches,
                        CrcDiffers, ResendAnswered, DoneAnswered
    <3> QED
      BY <2>1, <3>1 DEF CorrectAnswered, serverVars
  <2>4. CASE ServerGoes
    BY <2>1, <2>4 DEF ServerGoes, ServerCloses, serverVars
  <2>5. CASE FileChanges
    BY <2>1, <2>5 DEF FileChanges, connVars, serverVars
  <2>6. CASE UNCHANGED transferVars
    BY <2>1, <2>6 DEF transferVars, connVars, serverVars
  <2> QED
    BY <1>1, <2>2, <2>3, <2>4, <2>5, <2>6 DEF TransferNext
<1>2. TransferInv /\ [TransferNext]_transferVars =>
        [accepted # NoFile =>
           /\ stored' = stored
           /\ accepted' = accepted
           /\ sends'[CRC_INCORRECT_DONE] = 0]_transferVars
  BY <1>1
<1> QED
  BY <1>2, TransferInvariance, PTL DEF TransferSpec, AcceptedIsFinal

-----------------------------------------------------------------------------
(* The refinement.                                                         *)

\* What a send by SendAndAwait does to the counters: one goes up, or the
\* process is killed and none does.
LEMMA SendCounts ==
  ASSUME TransferTypeOK, NEW code \in RequestCode, NEW payload, NEW await,
         SendAndAwait(code, payload, await)
  PROVE  \/ /\ pc' = await
            /\ sends'[code] = sends[code] + 1
            /\ \A c \in RequestCode : c # code => sends'[c] = sends[c]
         \/ pc' = "killed" /\ sends' = sends
<1>1. CASE SendRequest(code, payload) /\ pc' = await
  <2>1. sends \in [RequestCode -> Nat] /\ sends' = [sends EXCEPT ![code] = @ + 1]
    BY <1>1 DEF SendRequest, TransferTypeOK
  <2> HIDE DEF RequestCode
  <2> QED
    BY <1>1, <2>1
<1>2. CASE SigPipe /\ pc' = "killed"
  BY <1>2 DEF SigPipe
<1> QED
  BY <1>1, <1>2 DEF SendAndAwait

\* Every step of the transfer is a step of the promise or stutters there.
LEMMA StepRefinement ==
  ASSUME TransferAssumption, TransferInv, [TransferNext]_transferVars
  PROVE  [Promise!Next]_(Promise!vars)
<1>1. /\ sends[SEND_FILE] \in Nat /\ sends[CRC_CORRECT] \in Nat
      /\ sends[CRC_INCORRECT_DONE] \in Nat
      /\ MaxRetries \in Nat
  BY DEF TransferInv, TransferTypeOK, TransferAssumption
<1> DEFINE Quiet == /\ sends'[SEND_FILE] = sends[SEND_FILE]
                    /\ sends'[CRC_CORRECT] = sends[CRC_CORRECT]
                    /\ sends'[CRC_INCORRECT_DONE] = sends[CRC_INCORRECT_DONE]
<1>2. CASE Attempt
  <2>1. /\ pc = "loop" /\ retry_count < MaxRetries
        /\ accepted' = accepted /\ status' = status
        /\ SendAndAwait(SEND_FILE, encrypted, AwaitFile)
    BY <1>2 DEF Attempt, serverVars
  <2>2. /\ sends[SEND_FILE] = retry_count
        /\ sends[CRC_CORRECT] = 0 /\ sends[CRC_INCORRECT_DONE] = 0
    BY <2>1 DEF TransferInv, RetryInv, VerdictInv
  <2>3. CASE pc' = "killed" /\ Quiet
    BY <2>1, <2>2, <2>3 DEF Promise!Next, Promise!Die
  <2>4. CASE /\ pc' = AwaitFile
             /\ sends'[SEND_FILE] = sends[SEND_FILE] + 1
             /\ sends'[CRC_CORRECT] = sends[CRC_CORRECT]
             /\ sends'[CRC_INCORRECT_DONE] = sends[CRC_INCORRECT_DONE]
    BY <1>1, <2>1, <2>2, <2>4 DEF Promise!Next, Promise!SendOnce
  <2> QED
    BY <2>1, <2>3, <2>4, SendCounts DEF TransferInv
<1>3. CASE GiveUp
  <2>1. /\ pc = "loop" /\ retry_count = MaxRetries
        /\ accepted' = accepted /\ status' = status
        /\ SendAndAwait(CRC_INCORRECT_DONE, EmptyPayload, AwaitDone)
    BY <1>3 DEF GiveUp, serverVars
  <2>2. /\ sends[SEND_FILE] = retry_count
        /\ sends[CRC_CORRECT] = 0 /\ sends[CRC_INCORRECT_DONE] = 0
    BY <2>1 DEF TransferInv, RetryInv, VerdictInv
  <2>3. CASE pc' = "killed" /\ Quiet
    BY <2>1, <2>2, <2>3 DEF Promise!Next, Promise!Die
  <2>4. CASE /\ pc' = AwaitDone
             /\ sends'[SEND_FILE] = sends[SEND_FILE]
             /\ sends'[CRC_CORRECT] = sends[CRC_CORRECT]
             /\ sends'[CRC_INCORRECT_DONE] = sends[CRC_INCORRECT_DONE] + 1
    BY <1>1, <2>1, <2>2, <2>4 DEF Promise!Next, Promise!ReportDone
  <2> QED
    BY <2>1, <2>3, <2>4, SendCounts DEF TransferInv
<1>4. CASE CrcMatches
  <2>1. /\ pc = AwaitFile
        /\ accepted' = accepted /\ status' = status
        /\ SendAndAwait(CRC_CORRECT, EmptyPayload, AwaitCorrect)
    BY <1>4 DEF CrcMatches, serverVars
  <2>2. /\ sends[SEND_FILE] > 0
        /\ sends[CRC_CORRECT] = 0 /\ sends[CRC_INCORRECT_DONE] = 0
    <3>1. retry_count \in Nat
      BY DEF TransferInv, TransferTypeOK, TransferAssumption
    <3> QED
      BY <1>1, <2>1, <3>1 DEF TransferInv, RetryInv, VerdictInv
  <2>3. CASE pc' = "killed" /\ Quiet
    BY <2>1, <2>2, <2>3 DEF Promise!Next, Promise!Die
  <2>4. CASE /\ pc' = AwaitCorrect
             /\ sends'[SEND_FILE] = sends[SEND_FILE]
             /\ sends'[CRC_CORRECT] = sends[CRC_CORRECT] + 1
             /\ sends'[CRC_INCORRECT_DONE] = sends[CRC_INCORRECT_DONE]
    BY <1>1, <2>1, <2>2, <2>4 DEF Promise!Next, Promise!ReportCorrect
  <2> QED
    BY <2>1, <2>3, <2>4, SendCounts DEF TransferInv
<1>5. CASE CrcDiffers
  <2>1. /\ pc = AwaitFile
        /\ accepted' = accepted /\ status' = status
        /\ SendAndAwait(CRC_INCORRECT_RESEND, EmptyPayload, AwaitResend)
    BY <1>5 DEF CrcDiffers, serverVars
  <2>2. sends[CRC_CORRECT] = 0 /\ sends[CRC_INCORRECT_DONE] = 0
    BY <2>1 DEF TransferInv, VerdictInv
  <2>3. CASE pc' = "killed" /\ Quiet
    BY <2>1, <2>2, <2>3 DEF Promise!Next, Promise!Die
  <2>4. CASE pc' = AwaitResend /\ Quiet
    BY <2>1, <2>4 DEF Promise!vars
  <2> QED
    BY <2>1, <2>3, <2>4, SendCounts DEF TransferInv
<1>6. CASE FileRefused \/ ResendAnswered
  <2>1. /\ pc \in {AwaitFile, AwaitResend} /\ pc' = "loop"
        /\ accepted' = accepted /\ status' = status /\ sends' = sends
    BY <1>6 DEF FileRefused, ResendAnswered, serverVars
  <2> QED
    BY <2>1 DEF Promise!vars
<1>7. CASE CorrectAnswered
  <2>1. /\ pc = AwaitCorrect /\ pc' = "returned"
        /\ accepted' = accepted /\ sends' = sends
    BY <1>7 DEF CorrectAnswered, serverVars
  <2>2. sends[CRC_CORRECT] = 1
    BY <2>1 DEF TransferInv, VerdictInv
  <2> QED
    BY <2>1, <2>2 DEF Promise!Next, Promise!Return
<1>8. CASE DoneAnswered
  <2>1. /\ pc = AwaitDone /\ pc' = "returned" /\ status' = status
        /\ accepted' = accepted /\ sends' = sends
    BY <1>8 DEF DoneAnswered, serverVars
  <2>2. /\ sends[CRC_CORRECT] = 0 /\ sends[CRC_INCORRECT_DONE] = 1 /\ ~status
    BY <2>1 DEF TransferInv, VerdictInv
  <2> QED
    BY <2>1, <2>2 DEF Promise!Next, Promise!Return
<1>9. CASE ServerAccepts
  <2>1. /\ pc' = pc /\ status' = status /\ sends' = sends /\ accepted' = stored
        /\ Takes(CRC_CORRECT)
    BY <1>9 DEF ServerAccepts, clientVars, Reply
  <2>2. pc \in TransferAwaiting /\ Awaited(pc) = CRC_CORRECT /\ requests # <<>> /\ connected
    BY <2>1, TakeEffect
  <2>3. pc = AwaitCorrect
    BY <2>2 DEF Awaited
  <2>4. accepted = NoFile /\ accepted' # NoFile /\ sends[CRC_CORRECT] = 1
    BY <2>1, <2>2, <2>3
    DEF TransferInv, AcceptedInv, StoredInv, VerdictInv, TransferAssumption
  <2> QED
    BY <2>1, <2>3, <2>4 DEF Promise!Next, Promise!Accept
<1>10. CASE ServerStores \/ ServerAcknowledges \/ ServerRefuses \/ ServerGoes \/ FileChanges
  <2>1. pc' = pc /\ status' = status /\ sends' = sends /\ accepted' = accepted
    BY <1>10 DEF ServerStores, ServerAcknowledges, ServerRefuses, ServerGoes,
                 ServerCloses, FileChanges, Reply, clientVars, serverVars, connVars
  <2> QED
    BY <2>1 DEF Promise!vars
<1>11. CASE UNCHANGED transferVars
  <2>1. pc' = pc /\ status' = status /\ sends' = sends /\ accepted' = accepted
    BY <1>11 DEF transferVars, clientVars, serverVars, connVars
  <2> QED
    BY <2>1 DEF Promise!vars
<1> QED
  BY <1>2, <1>3, <1>4, <1>5, <1>6, <1>7, <1>8, <1>9, <1>10, <1>11
  DEF TransferNext, TransferClient, TransferServer

\* handleRetrySendFile implements the promise, for every instance.
THEOREM PromiseIsKept == TransferSpec => KeepsPromise
<1>1. TransferInit => Promise!Init
  BY TransferAssumption DEF TransferInit, NeverSent, Promise!Init
<1>2. TransferInv /\ [TransferNext]_transferVars => [Promise!Next]_(Promise!vars)
  BY StepRefinement, TransferAssumption
<1> QED
  BY <1>1, <1>2, TransferInvariance, PTL DEF TransferSpec, KeepsPromise, Promise!Spec

-----------------------------------------------------------------------------
(* Where the documented result is the real one.                            *)

\* handleRetrySendFile returns true only if the file was verified, as
\* documented, if every reply arrives whole: the server never closes in
\* mid-session, and no reply comes in pieces, which Connection leaves out
\* (ResponseStream shows what pieces do on a connection that stays open, and
\* that a getResponse whose reads come whole returns its own response).
THEOREM VerifiedOnWholeReplies ==
  ASSUME ~MayClose
  PROVE  TransferSpec => []TrueOnlyIfVerified
<1>1. TransferInit => connected
  BY Zenon DEF TransferInit
<1>2. ASSUME connected, [TransferNext]_transferVars PROVE connected'
  <2>1. CASE TransferClient \/ FileChanges
    BY <1>2, <2>1, ClientSteps DEF FileChanges, connVars
  <2>2. CASE TransferServer
    <3>1. \A code, payload : Reply(code, payload) => UNCHANGED connected
      BY DEF Reply
    <3>2. \E code, payload : Reply(code, payload)
      <4>1. CASE ServerStores
        BY <4>1 DEF ServerStores
      <4>2. CASE ServerAccepts
        BY <4>2 DEF ServerAccepts
      <4>3. CASE ServerAcknowledges
        BY <4>3 DEF ServerAcknowledges
      <4>4. CASE ServerRefuses
        BY <4>4 DEF ServerRefuses
      <4> QED
        BY <2>2, <4>1, <4>2, <4>3, <4>4 DEF TransferServer
    <3> QED
      BY <1>2, <3>1, <3>2
  <2>3. CASE ServerGoes
    BY <2>3 DEF ServerGoes, ServerCloses
  <2>4. CASE UNCHANGED transferVars
    BY <1>2, <2>4 DEF transferVars, connVars
  <2> QED
    BY <1>2, <2>1, <2>2, <2>3, <2>4 DEF TransferNext
<1>3. TransferInv /\ connected => TrueOnlyIfVerified
  BY DEF TransferInv, AgreementInv, ResultAgrees, TrueOnlyIfVerified
<1> QED
  BY <1>1, <1>2, <1>3, TransferInvariance, PTL DEF TransferSpec
=============================================================================
