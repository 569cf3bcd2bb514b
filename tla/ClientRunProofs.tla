--------------------------- MODULE ClientRunProofs ---------------------------
(***************************************************************************)
(* Proofs about ClientRun, for every set of names, contents and checksums, *)
(* any number of runs and attempts, with or without closes, crashes and    *)
(* disk errors.                                                            *)
(***************************************************************************)
EXTENDS ClientRun, FileTransferProofs

-----------------------------------------------------------------------------
(* Queues and the operators on them.                                       *)

\* A queue of one message.
LEMMA OneMessage ==
  ASSUME NEW m
  PROVE  /\ <<m>> # <<>> /\ Len(<<m>>) = 1
         /\ Head(<<m>>) = m /\ <<m>>[1] = m
         /\ Tail(<<m>>) = <<>> /\ Append(<<>>, m) = <<m>>
OBVIOUS

\* A queue of length one is its first message.
LEMMA QueueOfOne ==
  ASSUME NEW S, NEW q \in Seq(S), Len(q) = 1
  PROVE  q[1] \in S /\ q = <<q[1]>>
<1>1. q[1] \in S
  BY ElementOfSeq
<1>2. <<q[1]>> \in Seq(S) /\ Len(<<q[1]>>) = 1 /\ <<q[1]>>[1] = q[1]
  BY <1>1
<1> QED
  BY <1>1, <1>2, SeqEqual

\* A reply, written to an idle connection, arrives whole, or is cut short or
\* lost by a close.
LEMMA ReplyOnIdle ==
  ASSUME responses = <<>>, connected \in BOOLEAN, connected,
         NEW code, NEW payload, Reply(code, payload)
  PROVE  /\ sends' = sends
         /\ connected' \in BOOLEAN
         /\ \/ connected' /\ responses' = <<[code |-> code, payload |-> payload]>>
            \/ ~connected' /\ responses' = <<[code |-> code, payload |-> EmptyPayload]>>
            \/ ~connected' /\ responses' = <<>>
<1>1. \/ responses' = Append(responses, [code |-> code, payload |-> payload]) /\ connected' = connected
      \/ connected' = FALSE /\ responses' = Append(responses, [code |-> code, payload |-> EmptyPayload])
      \/ connected' = FALSE /\ responses' = responses
  BY Zenon DEF Reply
<1>2. sends' = sends
  BY DEF Reply
<1>3. \A m : Append(responses, m) = <<m>>
  BY OneMessage
<1>4. CASE responses' = Append(responses, [code |-> code, payload |-> payload]) /\ connected' = connected
  <2>1. connected' /\ connected' \in BOOLEAN
    BY <1>4
  <2>2. responses' = <<[code |-> code, payload |-> payload]>>
    BY <1>3, <1>4, Zenon
  <2> QED
    BY <1>2, <2>1, <2>2
<1>5. CASE connected' = FALSE /\ responses' = Append(responses, [code |-> code, payload |-> EmptyPayload])
  <2>1. ~connected' /\ connected' \in BOOLEAN
    BY <1>5
  <2>2. responses' = <<[code |-> code, payload |-> EmptyPayload]>>
    BY <1>3, <1>5, Zenon
  <2> QED
    BY <1>2, <2>1, <2>2
<1>6. CASE connected' = FALSE /\ responses' = responses
  <2>1. ~connected' /\ connected' \in BOOLEAN /\ responses' = <<>>
    BY <1>6
  <2> QED
    BY <1>2, <2>1
<1> QED
  BY <1>1, <1>4, <1>5, <1>6

USE DEF REGISTRATION, SEND_PUBLIC_KEY, RECONNECT, SEND_FILE, CRC_CORRECT,
        CRC_INCORRECT_RESEND, CRC_INCORRECT_DONE, RequestCode,
        REGISTRATION_SUCCESS, REGISTRATION_FAILED, RECEIVED_PUBLIC_KEY_SEND_AES,
        FILE_RECEIVED_CRC_OK, CONFIRM_MSG, APPROVE_RECONNECT_SEND_AES,
        RECONNECT_REJECTED, OTHER_CODE, ResponseCode,
        AwaitFile, AwaitCorrect, AwaitResend, AwaitDone, TransferAwaiting, Ended,
        AwaitRegistration, AwaitReconnection, AwaitKey,
        Saving, Uploading, Quiet, HandshakeAwaiting, Transferring

\* The request a flow waits on has the code of that flow.
LEMMA AwaitedCodes ==
  /\ pc = AwaitRegistration => AwaitedRequest(pc) = REGISTRATION
  /\ pc = AwaitReconnection => AwaitedRequest(pc) = RECONNECT
  /\ pc = AwaitKey => AwaitedRequest(pc) = SEND_PUBLIC_KEY
  /\ pc \in TransferAwaiting =>
       AwaitedRequest(pc) = Awaited(pc) /\ Awaited(pc) \in SEND_FILE .. CRC_INCORRECT_DONE
BY DEF AwaitedRequest, Awaited

\* In a transfer a request under way is one of the transfer's.
LEMMA TransferQueue ==
  ASSUME TransferInv, requests # <<>>
  PROVE  /\ connected /\ responses = <<>> /\ pc \in TransferAwaiting
         /\ \E m \in [code : SEND_FILE .. CRC_INCORRECT_DONE, payload : Content \cup {EmptyPayload}] :
              requests = <<m>> /\ m.code = Awaited(pc)
<1>1. /\ requests \in Seq(Requests) /\ responses \in Seq(Responses)
      /\ connected /\ pc \in TransferAwaiting
  BY DEF TransferInv, TransferTypeOK, RepliesArePaired, ClosedInv, Requests, Responses
<1>0. Len(requests) + Len(responses) <= 1
  BY <1>1 DEF TransferInv, RepliesArePaired
<1>7. \A i \in 1 .. Len(requests) : requests[i].code = Awaited(pc)
  BY <1>1 DEF TransferInv, RepliesArePaired
<1>2. Len(requests) \in Nat /\ Len(requests) # 0 /\ Len(responses) \in Nat
  BY <1>1, EmptySeq, LenProperties
<1>3. Len(requests) = 1 /\ Len(responses) = 0
  <2> DEFINE a == Len(requests)
             b == Len(responses)
  <2>1. a \in Nat /\ b \in Nat /\ a # 0 /\ a + b <= 1
    BY <1>0, <1>2
  <2> HIDE DEF a, b
  <2>2. a = 1 /\ b = 0
    BY <2>1
  <2> QED
    BY <2>2 DEF a, b
<1>4. /\ requests[1] \in Requests /\ requests = <<requests[1]>>
      /\ responses = <<>>
  <2>1. requests[1] \in Requests /\ requests = <<requests[1]>>
    BY <1>1, <1>3, QueueOfOne
  <2>2. responses = <<>>
    BY <1>1, <1>3, EmptySeq
  <2> QED
    BY <2>1, <2>2
<1>5. requests[1].code = Awaited(pc) /\ Awaited(pc) \in SEND_FILE .. CRC_INCORRECT_DONE
  BY <1>1, <1>3, <1>7, AwaitedCodes
<1>6. requests[1] \in [code : SEND_FILE .. CRC_INCORRECT_DONE, payload : Content \cup {EmptyPayload}]
  BY <1>4, <1>5 DEF Requests
<1> QED
  BY <1>1, <1>4, <1>5, <1>6

\* A transfer's queue is one the whole run allows.
LEMMA TransferQueueAllowed == TransferInv => QueueInv
<1> SUFFICES ASSUME TransferInv, requests # <<>>
             PROVE  connected /\ responses = <<>> /\ \E m \in SentRequest : requests = <<m>>
  BY DEF QueueInv
<1> QED
  BY TransferQueue DEF SentRequest

\* A request the server takes is the only message under way.  If its client
\* still waits, it is what the client waits on.
LEMMA TakeRequest ==
  ASSUME RunInv, NEW c \in RequestCode, Takes(c)
  PROVE  /\ connected /\ connected \in BOOLEAN /\ responses = <<>> /\ requests' = <<>>
         /\ \E m \in SentRequest : requests = <<m>> /\ m.code = c /\ Asked = m.payload
         /\ \/ pc \in {"off", "connect"}
            \/ /\ pc \in HandshakeAwaiting /\ requests = <<Outstanding>>
               /\ AwaitedRequest(pc) = c /\ Asked = Outstanding.payload
            \/ pc \in TransferAwaiting /\ Awaited(pc) = c
<1>1. /\ requests # <<>> /\ Head(requests).code = c /\ requests' = Tail(requests)
      /\ Asked = Head(requests).payload
  BY DEF Takes, Asked
<1>2. connected /\ connected \in BOOLEAN /\ responses = <<>>
  BY <1>1 DEF RunInv, QueueInv, TypeOK
<1>3. PICK m \in SentRequest : requests = <<m>>
  BY <1>1 DEF RunInv, QueueInv
<1>4. m.code = c /\ Asked = m.payload /\ requests' = <<>>
  BY <1>1, <1>3, OneMessage
<1>5. \/ pc \in {"off", "connect"} \cup Quiet \/ pc \in HandshakeAwaiting \/ pc \in Transferring
  BY DEF RunInv, TypeOK, Awaiting
<1>6. CASE pc \in Quiet
  BY <1>1, <1>6 DEF RunInv, HandshakeInv
<1>7. CASE pc \in HandshakeAwaiting
  <2>1. requests = <<Outstanding>>
    BY <1>1, <1>7 DEF RunInv, HandshakeInv
  <2>2. Head(requests) = Outstanding
    BY <2>1, OneMessage
  <2> QED
    BY <1>1, <1>2, <1>3, <1>4, <1>7, <2>1, <2>2 DEF Outstanding
<1>8. CASE pc \in Transferring
  <2>1. TransferInv
    BY <1>8 DEF RunInv, UploadInv
  <2>2. pc \in TransferAwaiting
    BY <1>1, <2>1, TransferQueue
  <2>3. PICK n : requests = <<n>> /\ n.code = Awaited(pc)
    BY <1>1, <2>1, TransferQueue
  <2>4. Head(requests) = n
    BY <2>3, OneMessage
  <2> QED
    BY <1>1, <1>2, <1>3, <1>4, <2>2, <2>3, <2>4
<1>9. CASE pc \in {"off", "connect"}
  BY <1>2, <1>3, <1>4, <1>9
<1> QED
  BY <1>5, <1>6, <1>7, <1>8, <1>9

\* getResponse in a flow empties the connection.  What it returns is a true
\* grant, or it has no payload and grants only after a close.
LEMMA ReceiveInFlow ==
  ASSUME RunAssumption, RunInv, pc \in HandshakeAwaiting, ConsumeResponse, NEW r \in GetResponse
  PROVE  /\ requests = <<>> /\ responses' = <<>>
         /\ \/ r.payload = Grant /\ Grant # EmptyPayload /\ Entitled
            \/ r.payload = EmptyPayload /\ (r.code \in GrantCode => ~connected)
<1>1. HandshakeInv /\ TypeOK
  BY DEF RunInv
<1>2. requests = <<>>
  <2>1. GetResponse # {}
    OBVIOUS
  <2>2. responses # <<>> \/ ~connected
    BY <2>1 DEF GetResponse
  <2>3. ~(requests = <<Outstanding>> /\ responses = <<>>)
    BY <2>2, OneMessage DEF RunInv, QueueInv
  <2> QED
    BY <1>1, <2>3 DEF HandshakeInv
<1>3. CASE responses = <<>>
  <2>1. ~connected /\ r.payload = EmptyPayload
    BY <1>3 DEF GetResponse, UninitializedResponse
  <2> QED
    BY <1>2, <1>3, <2>1 DEF ConsumeResponse
<1>4. CASE responses # <<>>
  <2>1. PICK c \in RepliesTo(AwaitedRequest(pc)), p \in {EmptyPayload, Grant} :
          /\ responses = <<[code |-> c, payload |-> p]>>
          /\ p = Grant => Entitled
          /\ c \in GrantCode /\ p = EmptyPayload => ~connected
    BY <1>1, <1>4, OneMessage DEF HandshakeInv
  <2>2. r = [code |-> c, payload |-> p] /\ responses' = <<>>
    BY <1>4, <2>1, OneMessage DEF GetResponse, ConsumeResponse
  <2>3. Grant # EmptyPayload
    BY <1>1 DEF TypeOK, Grant, RunAssumption
  <2> QED
    BY <1>2, <2>1, <2>2, <2>3
<1> QED
  BY <1>3, <1>4

\* A flow sends on an idle connection: the request is the only message, or
\* nothing is if the peer is gone, and then the process may be killed.
LEMMA SendInFlow ==
  ASSUME RunInv, pc \in Quiet, NEW payload, NEW await,
         NEW code \in {REGISTRATION, RECONNECT, SEND_PUBLIC_KEY},
         SendAndAwait(code, payload, await)
  PROVE  /\ responses = <<>> /\ connected \in BOOLEAN
         /\ sends' \in [RequestCode -> Nat]
         /\ sends'[SEND_FILE] = 0 /\ sends'[CRC_CORRECT] = 0 /\ sends'[CRC_INCORRECT_DONE] = 0
         /\ \/ /\ pc' = await /\ connected
               /\ requests' = <<[code |-> code, payload |-> payload]>>
            \/ pc' = await /\ ~connected /\ requests' = <<>>
            \/ pc' = "killed" /\ ~connected /\ requests' = <<>>
<1>1. /\ requests = <<>> /\ responses = <<>> /\ connected \in BOOLEAN
      /\ sends \in [RequestCode -> Nat]
      /\ sends[SEND_FILE] = 0 /\ sends[CRC_CORRECT] = 0 /\ sends[CRC_INCORRECT_DONE] = 0
  BY DEF RunInv, TypeOK, HandshakeInv, BeforeInv
<1>2. CASE SendRequest(code, payload) /\ pc' = await
  <2>1. sends' = [sends EXCEPT ![code] = @ + 1]
    BY <1>2 DEF SendRequest
  <2>2. /\ sends' \in [RequestCode -> Nat]
        /\ sends'[SEND_FILE] = 0 /\ sends'[CRC_CORRECT] = 0 /\ sends'[CRC_INCORRECT_DONE] = 0
    BY <1>1, <2>1, SMTT(30)
  <2>3. \/ connected /\ requests' = <<[code |-> code, payload |-> payload]>>
        \/ ~connected /\ requests' = <<>>
    BY <1>1, <1>2, OneMessage DEF SendRequest
  <2> QED
    BY <1>1, <1>2, <2>2, <2>3
<1>3. CASE SigPipe /\ pc' = "killed"
  BY <1>1, <1>3 DEF SigPipe
<1> QED
  BY <1>2, <1>3 DEF SendAndAwait

\* The invariant of the transfer holds where the transfer begins, and where
\* the process is killed before it could.
LEMMA FreshTransfer ==
  ASSUME TransferAssumption, TypeOK', pc' \in {"loop", "killed"},
         requests' = <<>>, responses' = <<>>, retry_count' = 0, ~status',
         accepted' = NoFile, sends' \in [RequestCode -> Nat],
         sends'[SEND_FILE] = 0, sends'[CRC_CORRECT] = 0, sends'[CRC_INCORRECT_DONE] = 0
  PROVE  TransferInv'
<1>1. TransferTypeOK'
  BY DEF TypeOK, TransferTypeOK
<1>2. RepliesArePaired' /\ ClosedInv' /\ StoredInv' /\ AcceptedInv' /\ AgreementInv'
  BY DEF RepliesArePaired, ClosedInv, StoredInv, AcceptedInv, AgreementInv, ResultAgrees
<1>3. RetryInv' /\ VerdictInv'
  BY DEF RetryInv, VerdictInv, TransferAssumption
<1> QED
  BY <1>1, <1>2, <1>3 DEF TransferInv

-----------------------------------------------------------------------------
(* The invariant holds initially.                                          *)

\* Before the first run nothing is under way, and what is on disk is from
\* earlier times.
LEMMA RunInit ==
  ASSUME TransferAssumption, RunAssumption, Init
  PROVE  RunInv
<1> USE TransferAssumption, RunAssumption DEF TransferAssumption, RunAssumption
<1>1. TypeOK
  <2>7. connected \in BOOLEAN /\ status \in BOOLEAN /\ inTry \in BOOLEAN /\ granted \in BOOLEAN
    BY Zenon DEF Init
  <2>1. /\ pc = "off" /\ retry_count \in 0 .. MaxRetries
        /\ calculatedCRC \in CRC /\ encrypted \in Content
        /\ {file, stored, accepted} \subseteq Content \cup {NoFile}
    BY DEF Init
  <2>2. /\ runs \in 0 .. MaxRuns /\ sockets \in 0 .. 2
        /\ clientName \in Name /\ clientId = UninitId
        /\ keys = 1 /\ privateKey = 0 /\ registered \subseteq Name
    BY DEF Init
  <2>3. meInfo \in {NoFile} \cup [name : Name, id : Name \cup {UninitId, StaleId}, key : 0 .. 1]
    BY DEF Init, MeInfo
  <2>4. privKey \in {NoFile} \cup 0 .. 1
    BY DEF Init
  <2>5. publicKey \in [Name -> 0 .. 1]
    BY DEF Init
  <2>6. keys \in 1 .. 1 + 2 * MaxRuns /\ privateKey \in 0 .. keys
    BY <2>2
  <2> QED
    BY <2>1, <2>2, <2>3, <2>4, <2>5, <2>6, <2>7 DEF TypeOK
<1>2. QueueInv /\ CountInv /\ BeforeInv /\ HandshakeInv /\ GrantedInv
  BY DEF Init, QueueInv, CountInv, BeforeInv, HandshakeInv, GrantedInv
<1>3. AccountInv
  BY DEF Init, AccountInv
<1>4. DiskInv /\ UploadInv /\ UploadsUnderListedKey
  BY DEF Init, DiskInv, UploadInv, UploadsUnderListedKey
<1>5. SavedIdentityIsRegistered
  BY DEF Init, SavedIdentityIsRegistered, MeInfo
<1> QED
  BY <1>1, <1>2, <1>3, <1>4, <1>5 DEF RunInv

-----------------------------------------------------------------------------
(* handleClient keeps the invariant.                                       *)

\* A new run starts with fresh locals and what the disk holds.
LEMMA StartInv ==
  ASSUME TransferAssumption, RunAssumption, RunInv, Start
  PROVE  RunInv'
<1>1. /\ pc = "off" /\ pc' = "connect" /\ runs < MaxRuns /\ runs' = runs + 1
      /\ clientId' = UninitId /\ privateKey' = 0 /\ sockets' = 0
      /\ retry_count' = 0 /\ ~status' /\ status' \in BOOLEAN /\ calculatedCRC' = CrcError
      /\ UNCHANGED <<requests, responses, connected, sends, encrypted, stored, accepted,
                     file, keys, meInfo, privKey, registered, publicKey, granted>>
  BY DEF Start, connVars, serverVars, diskVars, accountVars
<1>2. inTry' \in BOOLEAN /\ clientName' \in Name
  <2>1. CASE meInfo # NoFile /\ inTry' = TRUE /\ clientName' = meInfo.name
    BY <2>1 DEF RunInv, TypeOK
  <2>2. CASE inTry' = FALSE /\ clientName' = TransferName
    BY <2>2 DEF RunAssumption
  <2> QED
    BY <2>1, <2>2, Zenon DEF Start
<1>3. /\ keys \in Nat /\ runs \in Nat /\ runs' \in 0 .. MaxRuns
      /\ keys <= 1 + 2 * runs
  BY <1>1 DEF RunInv, TypeOK, CountInv, RunAssumption
<1>4. TypeOK'
  BY <1>1, <1>2, <1>3 DEF RunInv, TypeOK, TransferAssumption
<1>5. QueueInv'
  BY <1>1 DEF RunInv, QueueInv, SentRequest
<1>6. CountInv'
  BY <1>1, <1>2, <1>3 DEF CountInv
<1>7. /\ BeforeInv' /\ HandshakeInv' /\ GrantedInv' /\ DiskInv'
      /\ UploadInv' /\ UploadsUnderListedKey'
  BY <1>1 DEF BeforeInv, HandshakeInv, GrantedInv, DiskInv, UploadInv, UploadsUnderListedKey
<1>8. AccountInv' /\ SavedIdentityIsRegistered'
  BY <1>1 DEF RunInv, AccountInv, SavedIdentityIsRegistered
<1> QED
  BY <1>4, <1>5, <1>6, <1>7, <1>8 DEF RunInv

\* A run that ends, whatever its locals, leaves a state in which only the
\* server goes on.
LEMMA OffInv ==
  ASSUME RunInv, pc' = "off",
         responses' = responses \/ requests = <<>>,
         privKey' \in {NoFile} \cup 0 .. keys,
         UNCHANGED <<requests, connected, sends, retry_count, status, calculatedCRC,
                     encrypted, stored, accepted, file, runs, inTry, clientName, clientId,
                     privateKey, keys, sockets, meInfo, registered, publicKey, granted>>
  PROVE  RunInv'
<1>1. TypeOK'
  BY DEF RunInv, TypeOK
<1>2. QueueInv'
  BY DEF RunInv, QueueInv, SentRequest
<1>3. CountInv'
  BY DEF RunInv, CountInv
<1>4. /\ BeforeInv' /\ HandshakeInv' /\ GrantedInv' /\ DiskInv'
      /\ UploadInv' /\ UploadsUnderListedKey'
  BY DEF BeforeInv, HandshakeInv, GrantedInv, DiskInv, UploadInv, UploadsUnderListedKey
<1>5. AccountInv' /\ SavedIdentityIsRegistered'
  BY DEF RunInv, AccountInv, SavedIdentityIsRegistered
<1> QED
  BY <1>1, <1>2, <1>3, <1>4, <1>5 DEF RunInv

\* A runtime_error ends the run or leads to a second connection.
LEMMA RuntimeErrorInv ==
  ASSUME RunAssumption, RunInv, pc \in Saving \cup {AwaitKey}, RuntimeError,
         responses' = responses \/ requests = <<>>,
         privKey' \in {NoFile} \cup 0 .. keys,
         UNCHANGED <<requests, connected, sends, retry_count, status, calculatedCRC,
                     encrypted, stored, accepted, file, runs, clientId,
                     privateKey, keys, sockets, meInfo, registered, publicKey, granted>>
  PROVE  RunInv'
<1>1. CASE ~inTry
  BY <1>1, OffInv DEF RuntimeError
<1>2. CASE inTry
  <2>1. /\ ~inTry' /\ inTry' \in BOOLEAN /\ clientName' = TransferName /\ pc' = "connect"
    BY <1>2 DEF RuntimeError
  <2>2. TypeOK'
    BY <2>1 DEF RunInv, TypeOK, RunAssumption
  <2>3. QueueInv'
    BY DEF RunInv, QueueInv, SentRequest
  <2>4. CountInv'
    BY <1>2, <2>1 DEF RunInv, CountInv
  <2>5. BeforeInv'
    BY <2>1 DEF RunInv, BeforeInv
  <2>6. /\ HandshakeInv' /\ GrantedInv' /\ DiskInv' /\ UploadInv' /\ UploadsUnderListedKey'
    BY <2>1 DEF HandshakeInv, GrantedInv, DiskInv, UploadInv, UploadsUnderListedKey
  <2>7. AccountInv' /\ SavedIdentityIsRegistered'
    BY DEF RunInv, AccountInv, SavedIdentityIsRegistered
  <2> QED
    BY <2>2, <2>3, <2>4, <2>5, <2>6, <2>7 DEF RunInv
<1> QED
  BY <1>1, <1>2

\* A new connection carries nothing.
LEMMA ConnectInv ==
  ASSUME RunAssumption, RunInv, Connect
  PROVE  RunInv'
<1>1. /\ pc = "connect"
      /\ UNCHANGED <<retry_count, status, calculatedCRC, encrypted, file, runs, inTry,
                     clientName, clientId, privateKey, keys, meInfo, privKey, registered,
                     publicKey>>
  BY DEF Connect, transferLocals, diskVars, accountVars
<1>2. CASE pc' = "off" /\ UNCHANGED <<connVars, serverVars, sockets, granted>>
  <2>1. UNCHANGED <<requests, responses, connected, sends, stored, accepted, sockets, granted>>
    BY <1>2 DEF connVars, serverVars
  <2>2. privKey' \in {NoFile} \cup 0 .. keys
    BY <1>1 DEF RunInv, TypeOK
  <2> QED
    BY <1>1, <1>2, <2>1, <2>2, OffInv
<1>3. CASE /\ requests' = <<>> /\ responses' = <<>> /\ connected' = TRUE
           /\ sends' = NeverSent
           /\ stored' = NoFile /\ accepted' = NoFile
           /\ sockets' = sockets + 1 /\ granted' = FALSE
           /\ pc' = IF inTry THEN "reconnect" ELSE "register"
  <2>1. connected' \in BOOLEAN /\ granted' \in BOOLEAN
    BY <1>3
  <2>2. pc' \in {"reconnect", "register"}
    BY <1>3
  <2>3. sockets' \in 0 .. 2 /\ (inTry => sockets' <= 1)
    BY <1>1, <1>3 DEF RunInv, TypeOK, CountInv
  <2>4. TypeOK'
    BY <1>1, <1>3, <2>1, <2>2, <2>3 DEF RunInv, TypeOK
  <2>5. QueueInv' /\ HandshakeInv'
    BY <1>3, <2>2 DEF QueueInv, HandshakeInv
  <2>6. CountInv'
    BY <1>1, <2>2, <2>3 DEF RunInv, CountInv
  <2>7. BeforeInv'
    BY <1>1, <1>3, <2>2 DEF RunInv, BeforeInv, NeverSent
  <2>8. /\ GrantedInv' /\ DiskInv' /\ UploadInv' /\ UploadsUnderListedKey'
    BY <2>2 DEF GrantedInv, DiskInv, UploadInv, UploadsUnderListedKey
  <2>9. AccountInv' /\ SavedIdentityIsRegistered'
    BY <1>1 DEF RunInv, AccountInv, SavedIdentityIsRegistered
  <2> QED
    BY <2>4, <2>5, <2>6, <2>7, <2>8, <2>9 DEF RunInv
<1> QED
  BY <1>2, <1>3, Zenon DEF Connect

-----------------------------------------------------------------------------
(* The registration and reconnection flows keep it.                        *)

\* The request that opens a flow is the one it then waits on.
LEMMA ConnectionRequestInv ==
  ASSUME TransferAssumption, RunInv, SendRegistration \/ SendReconnection
  PROVE  RunInv'
<1>1. PICK code \in {REGISTRATION, RECONNECT} :
        /\ pc = IF code = REGISTRATION THEN "register" ELSE "reconnect"
        /\ SendAndAwait(code, clientName,
                        IF code = REGISTRATION THEN AwaitRegistration ELSE AwaitReconnection)
  BY DEF SendRegistration, SendReconnection, ConnectionRequest
<1>2. UNCHANGED <<responses, connected, retry_count, status, calculatedCRC, encrypted,
                  stored, accepted, file, runs, inTry, clientName, clientId, privateKey,
                  keys, sockets, meInfo, privKey, registered, publicKey, granted>>
  BY DEF SendRegistration, SendReconnection, ConnectionRequest, transferLocals,
         serverVars, runVars, processVars, diskVars, accountVars
<1>3. /\ responses = <<>> /\ connected \in BOOLEAN
      /\ sends' \in [RequestCode -> Nat]
      /\ sends'[SEND_FILE] = 0 /\ sends'[CRC_CORRECT] = 0 /\ sends'[CRC_INCORRECT_DONE] = 0
  BY <1>1, SendInFlow
<1>4. \/ /\ pc' = IF code = REGISTRATION THEN AwaitRegistration ELSE AwaitReconnection
         /\ connected /\ requests' = <<[code |-> code, payload |-> clientName]>>
      \/ /\ pc' = IF code = REGISTRATION THEN AwaitRegistration ELSE AwaitReconnection
         /\ ~connected /\ requests' = <<>>
      \/ pc' = "killed" /\ ~connected /\ requests' = <<>>
  BY <1>1, SendInFlow
<1>5. pc' \in {AwaitRegistration, AwaitReconnection, "killed"}
  BY <1>4
<1>6. /\ clientName \in Name /\ retry_count = 0 /\ ~status /\ accepted = NoFile
  BY <1>1 DEF RunInv, TypeOK, BeforeInv
<1>7. TypeOK'
  BY <1>2, <1>5 DEF RunInv, TypeOK, Awaiting
<1>8. QueueInv'
  <2>1. [code |-> code, payload |-> clientName] \in SentRequest'
    BY <1>6 DEF SentRequest
  <2> QED
    BY <1>2, <1>3, <1>4, <2>1 DEF QueueInv
<1>9. CountInv'
  BY <1>1, <1>2, <1>5 DEF RunInv, CountInv
<1>10. BeforeInv'
  BY <1>2, <1>3, <1>5, <1>6 DEF BeforeInv
<1>11. HandshakeInv'
  <2>1. CASE pc' = "killed"
    BY <2>1 DEF HandshakeInv
  <2>2. CASE pc' # "killed" /\ connected
    <3>1. /\ pc' = IF code = REGISTRATION THEN AwaitRegistration ELSE AwaitReconnection
          /\ requests' = <<[code |-> code, payload |-> clientName]>>
      BY <1>4, <2>2
    <3>2. AwaitedRequest(pc') = code
      BY <3>1 DEF AwaitedRequest
    <3>3. Outstanding' = [code |-> code, payload |-> clientName]
      BY <1>2, <1>5, <2>2, <3>1, <3>2 DEF Outstanding
    <3> QED
      BY <1>2, <1>3, <1>5, <2>2, <3>1, <3>3 DEF HandshakeInv
  <2>3. CASE pc' # "killed" /\ ~connected
    BY <1>2, <1>3, <1>4, <1>5, <2>3 DEF HandshakeInv
  <2> QED
    BY <2>1, <2>2, <2>3
<1>12. GrantedInv' /\ DiskInv' /\ UploadsUnderListedKey'
  BY <1>5 DEF GrantedInv, DiskInv, UploadsUnderListedKey
<1>13. UploadInv'
  <2>1. ASSUME pc' = "killed" PROVE TransferInv'
    BY <1>2, <1>3, <1>4, <1>6, <1>7, <2>1, FreshTransfer
  <2> QED
    BY <1>5, <2>1 DEF UploadInv
<1>14. AccountInv' /\ SavedIdentityIsRegistered'
  BY <1>2 DEF RunInv, AccountInv, SavedIdentityIsRegistered
<1> QED
  BY <1>7, <1>8, <1>9, <1>10, <1>11, <1>12, <1>13, <1>14 DEF RunInv

\* A granted client has the id of its registered name, or none over a
\* connection that is gone, and a key pair of its own.
LEMMA GrantInv ==
  ASSUME RunAssumption, RunInv, pc \in {AwaitRegistration, AwaitReconnection},
         ConsumeResponse, NEW r \in GetResponse, r.code \in GrantCode, Granted(r),
         UNCHANGED <<requests, connected, sends, retry_count, status, calculatedCRC,
                     encrypted, stored, accepted, file, runs, inTry, clientName, sockets,
                     meInfo, privKey, registered, publicKey, granted>>
  PROVE  RunInv'
<1>1. /\ requests = <<>> /\ responses' = <<>>
      /\ \/ r.payload = clientName /\ clientName \in registered
         \/ r.payload = EmptyPayload /\ ~connected
  BY ReceiveInFlow DEF Grant, Entitled
<1>2. /\ pc' = "save_key" /\ keys' = keys + 1 /\ privateKey' = keys + 1
      /\ clientId' = IF r.payload = EmptyPayload THEN UninitId ELSE r.payload
  BY DEF Granted, GenerateRsaKeyPair
<1>3. /\ keys \in Nat /\ keys >= 1 /\ runs \in 0 .. MaxRuns /\ clientName \in Name
      /\ keys <= 2 * runs /\ (inTry => keys <= 2 * runs - 1)
  BY DEF RunInv, TypeOK, CountInv
<1>4. \/ clientId' = clientName /\ clientName \in registered
      \/ clientId' = UninitId /\ ~connected
  BY <1>1, <1>2, <1>3 DEF RunAssumption
<1>5. keys + 1 \in 1 .. 1 + 2 * MaxRuns /\ 0 .. keys \subseteq 0 .. keys + 1
  BY <1>3 DEF RunAssumption
<1>6. TypeOK'
  <2>1. /\ connected \in BOOLEAN /\ status \in BOOLEAN /\ inTry \in BOOLEAN /\ granted' \in BOOLEAN
        /\ retry_count \in 0 .. MaxRetries /\ calculatedCRC \in CRC /\ encrypted \in Content
        /\ {file, stored, accepted} \subseteq Content \cup {NoFile}
        /\ runs \in 0 .. MaxRuns /\ sockets \in 0 .. 2 /\ clientName \in Name
        /\ registered \subseteq Name
    BY DEF RunInv, TypeOK
  <2>2. clientId' \in Name \cup {UninitId}
    BY <1>3, <1>4
  <2>3. keys' \in 1 .. 1 + 2 * MaxRuns /\ privateKey' \in 0 .. keys'
    BY <1>2, <1>3, <1>5
  <2>4. meInfo \in {NoFile} \cup
          [name : Name, id : Name \cup {UninitId, StaleId}, key : 0 .. keys']
    BY <1>2, <1>5 DEF RunInv, TypeOK
  <2>5. privKey \in {NoFile} \cup 0 .. keys' /\ publicKey \in [Name -> 0 .. keys']
    BY <1>2, <1>5 DEF RunInv, TypeOK
  <2> QED
    BY <1>2, <2>1, <2>2, <2>3, <2>4, <2>5 DEF TypeOK
<1>7. QueueInv' /\ HandshakeInv'
  BY <1>1, <1>2 DEF QueueInv, HandshakeInv
<1>8. CountInv'
  BY <1>2, <1>3 DEF RunInv, CountInv
<1>9. BeforeInv'
  BY <1>2 DEF RunInv, BeforeInv
<1>10. GrantedInv'
  BY <1>2, <1>3, <1>4 DEF GrantedInv
<1>11. DiskInv' /\ UploadInv' /\ UploadsUnderListedKey'
  BY <1>2 DEF DiskInv, UploadInv, UploadsUnderListedKey
<1>12. AccountInv' /\ SavedIdentityIsRegistered'
  BY DEF RunInv, AccountInv, SavedIdentityIsRegistered
<1> QED
  BY <1>6, <1>7, <1>8, <1>9, <1>10, <1>11, <1>12 DEF RunInv

\* A registration is granted, or ends the run.
LEMMA RegistrationAnsweredInv ==
  ASSUME RunAssumption, RunInv, RegistrationAnswered
  PROVE  RunInv'
<1>1. /\ pc = AwaitRegistration /\ ConsumeResponse
      /\ UNCHANGED <<requests, connected, sends, retry_count, status, calculatedCRC,
                     encrypted, stored, accepted, file, runs, inTry, clientName, sockets,
                     meInfo, privKey, registered, publicKey, granted>>
  BY DEF RegistrationAnswered, transferLocals, serverVars, diskVars, accountVars
<1>2. PICK r \in GetResponse :
        \/ r.code = REGISTRATION_SUCCESS /\ Granted(r)
        \/ pc' = "off" /\ UNCHANGED <<clientId, keys, privateKey>>
  BY DEF RegistrationAnswered
<1>3. CASE r.code = REGISTRATION_SUCCESS /\ Granted(r)
  BY <1>1, <1>3, GrantInv DEF GrantCode
<1>4. CASE pc' = "off" /\ UNCHANGED <<clientId, keys, privateKey>>
  <2>1. requests = <<>>
    BY <1>1, ReceiveInFlow
  <2>2. privKey' \in {NoFile} \cup 0 .. keys
    BY <1>1 DEF RunInv, TypeOK
  <2> QED
    BY <1>1, <1>4, <2>1, <2>2, OffInv
<1> QED
  BY <1>2, <1>3, <1>4

\* A reconnection is granted, leads to a registration, or ends the run.
LEMMA ReconnectionAnsweredInv ==
  ASSUME RunAssumption, RunInv, ReconnectionAnswered
  PROVE  RunInv'
<1>1. /\ pc = AwaitReconnection /\ ConsumeResponse
      /\ UNCHANGED <<requests, connected, sends, retry_count, status, calculatedCRC,
                     encrypted, stored, accepted, file, runs, inTry, clientName, sockets,
                     meInfo, privKey, registered, publicKey, granted>>
  BY DEF ReconnectionAnswered, transferLocals, serverVars, diskVars, accountVars
<1>2. PICK r \in GetResponse :
        \/ r.code = APPROVE_RECONNECT_SEND_AES /\ Granted(r)
        \/ pc' \in {"register", "off"} /\ UNCHANGED <<clientId, keys, privateKey>>
  BY DEF ReconnectionAnswered
<1>3. requests = <<>> /\ responses' = <<>>
  BY <1>1, ReceiveInFlow
<1>4. CASE r.code = APPROVE_RECONNECT_SEND_AES /\ Granted(r)
  BY <1>1, <1>4, GrantInv DEF GrantCode
<1>5. CASE pc' = "off" /\ UNCHANGED <<clientId, keys, privateKey>>
  <2>1. privKey' \in {NoFile} \cup 0 .. keys
    BY <1>1 DEF RunInv, TypeOK
  <2> QED
    BY <1>1, <1>3, <1>5, <2>1, OffInv
<1>6. CASE pc' = "register" /\ UNCHANGED <<clientId, keys, privateKey>>
  <2>1. TypeOK'
    BY <1>1, <1>6 DEF RunInv, TypeOK
  <2>2. QueueInv' /\ HandshakeInv'
    BY <1>1, <1>3, <1>6 DEF QueueInv, HandshakeInv
  <2>3. CountInv' /\ BeforeInv'
    BY <1>1, <1>6 DEF RunInv, CountInv, BeforeInv
  <2>4. GrantedInv' /\ DiskInv' /\ UploadInv' /\ UploadsUnderListedKey'
    BY <1>6 DEF GrantedInv, DiskInv, UploadInv, UploadsUnderListedKey
  <2>5. AccountInv' /\ SavedIdentityIsRegistered'
    BY <1>1 DEF RunInv, AccountInv, SavedIdentityIsRegistered
  <2> QED
    BY <2>1, <2>2, <2>3, <2>4, <2>5 DEF RunInv
<1> QED
  BY <1>2, <1>4, <1>5, <1>6

\* Between the grant and the upload of the key only the files on disk change.
LEMMA SavingInv ==
  ASSUME RunInv, pc \in Saving, pc' \in Saving,
         TypeOK', DiskInv', SavedIdentityIsRegistered',
         UNCHANGED <<requests, responses, connected, sends, retry_count, status, accepted,
                     runs, inTry, clientName, clientId, privateKey, keys, sockets,
                     registered, publicKey, granted>>
  PROVE  RunInv'
<1>1. QueueInv'
  BY DEF RunInv, HandshakeInv, QueueInv
<1>2. HandshakeInv'
  BY DEF RunInv, HandshakeInv
<1>3. CountInv' /\ BeforeInv'
  BY DEF RunInv, CountInv, BeforeInv
<1>4. GrantedInv' /\ AccountInv'
  BY DEF RunInv, GrantedInv, AccountInv
<1>5. UploadInv' /\ UploadsUnderListedKey'
  BY DEF UploadInv, UploadsUnderListedKey
<1> QED
  BY <1>1, <1>2, <1>3, <1>4, <1>5 DEF RunInv

\* Opening priv.key empties it.
LEMMA OpenKeyFileInv ==
  ASSUME RunAssumption, RunInv, OpenKeyFile
  PROVE  RunInv'
<1>1. /\ pc = "save_key"
      /\ UNCHANGED <<requests, responses, connected, sends, retry_count, status, calculatedCRC,
                     encrypted, stored, accepted, file, runs, clientId, privateKey, keys,
                     sockets, meInfo, registered, publicKey, granted>>
  BY DEF OpenKeyFile, connVars, transferLocals, serverVars, accountVars
<1>2. keys \in Nat
  BY DEF RunInv, TypeOK
<1>3. CASE privKey' = 0 /\ pc' = "write_key" /\ NoError
  <2>1. UNCHANGED <<inTry, clientName>>
    BY <1>3 DEF NoError
  <2>2. TypeOK'
    BY <1>1, <1>2, <1>3, <2>1 DEF RunInv, TypeOK
  <2>3. DiskInv' /\ SavedIdentityIsRegistered'
    BY <1>1, <1>3 DEF RunInv, DiskInv, SavedIdentityIsRegistered
  <2> QED
    BY <1>1, <1>3, <2>1, <2>2, <2>3, SavingInv
<1>4. CASE UNCHANGED privKey /\ RuntimeError
  <2>1. privKey' \in {NoFile} \cup 0 .. keys
    BY <1>4 DEF RunInv, TypeOK
  <2> QED
    BY <1>1, <1>4, <2>1, RuntimeErrorInv
<1> QED
  BY <1>3, <1>4 DEF OpenKeyFile

\* priv.key is written, and me.info emptied.
LEMMA WriteKeyInv ==
  ASSUME RunAssumption, RunInv, WriteKeyOpenMeInfo
  PROVE  RunInv'
<1>1. /\ pc = "write_key"
      /\ UNCHANGED <<requests, responses, connected, sends, retry_count, status, calculatedCRC,
                     encrypted, stored, accepted, file, runs, clientId, privateKey, keys,
                     sockets, registered, publicKey, granted>>
      /\ privKey' = privateKey \/ (DiskMayFail /\ privKey' = privKey)
  BY DEF WriteKeyOpenMeInfo, connVars, transferLocals, serverVars, accountVars
<1>2. privKey' \in {NoFile} \cup 0 .. keys
  BY <1>1 DEF RunInv, TypeOK
<1>3. CASE meInfo' = EmptyMeInfo /\ pc' = "write_me_info" /\ NoError
  <2>1. UNCHANGED <<inTry, clientName>>
    BY <1>3 DEF NoError
  <2>2. keys \in Nat
    BY DEF RunInv, TypeOK
  <2>3. meInfo' \in [name : Name, id : Name \cup {UninitId, StaleId}, key : 0 .. keys]
    BY <1>3, <2>2 DEF EmptyMeInfo, MeInfo, RunAssumption
  <2>4. TypeOK'
    BY <1>1, <1>2, <1>3, <2>1, <2>3 DEF RunInv, TypeOK
  <2>5. DiskInv'
    BY <1>1, <1>3 DEF DiskInv
  <2>6. SavedIdentityIsRegistered'
    BY <1>3 DEF SavedIdentityIsRegistered, EmptyMeInfo, MeInfo
  <2> QED
    BY <1>1, <1>3, <2>1, <2>4, <2>5, <2>6, SavingInv
<1>4. CASE UNCHANGED meInfo /\ RuntimeError
  BY <1>1, <1>2, <1>4, RuntimeErrorInv
<1> QED
  BY <1>3, <1>4 DEF WriteKeyOpenMeInfo

\* me.info is written with the id of a registered name or with none.
LEMMA WriteMeInfoInv ==
  ASSUME RunInv, WriteMeInfo
  PROVE  RunInv'
<1>1. /\ pc = "write_me_info" /\ pc' = "send_key"
      /\ UNCHANGED <<requests, responses, connected, sends, retry_count, status, calculatedCRC,
                     encrypted, stored, accepted, file, runs, inTry, clientName, clientId,
                     privateKey, keys, sockets, privKey, registered, publicKey, granted>>
      /\ \/ meInfo' = MeInfo(clientName, clientId, privateKey)
         \/ DiskMayFail /\ meInfo' = meInfo
  BY DEF WriteMeInfo, connVars, transferLocals, serverVars, processVars, accountVars
<1>2. TypeOK'
  <2>1. meInfo' \in {NoFile} \cup [name : Name, id : Name \cup {UninitId, StaleId}, key : 0 .. keys]
    BY <1>1 DEF RunInv, TypeOK, MeInfo
  <2> QED
    BY <1>1, <2>1 DEF RunInv, TypeOK
<1>3. DiskInv'
  BY <1>1 DEF RunInv, DiskInv
<1>4. SavedIdentityIsRegistered'
  <2>1. CASE meInfo' = MeInfo(clientName, clientId, privateKey)
    <3>1. meInfo'.name = clientName /\ meInfo'.id = clientId
      BY <2>1 DEF MeInfo
    <3>2. \/ clientId = clientName /\ clientName \in registered
          \/ clientId = UninitId
      BY <1>1 DEF RunInv, GrantedInv
    <3> QED
      BY <1>1, <3>1, <3>2 DEF SavedIdentityIsRegistered
  <2>2. CASE meInfo' = meInfo
    BY <1>1, <2>2 DEF RunInv, SavedIdentityIsRegistered
  <2> QED
    BY <1>1, <2>1, <2>2
<1> QED
  BY <1>1, <1>2, <1>3, <1>4, SavingInv

\* The public key goes out under the id the client was given.
LEMMA SendPublicKeyInv ==
  ASSUME TransferAssumption, RunInv, SendPublicKey
  PROVE  RunInv'
<1> DEFINE upload == [id |-> clientId, key |-> privateKey]
<1>1. /\ pc = "send_key" /\ SendAndAwait(SEND_PUBLIC_KEY, upload, AwaitKey)
      /\ UNCHANGED <<responses, connected, retry_count, status, calculatedCRC, encrypted,
                     stored, accepted, file, runs, inTry, clientName, clientId, privateKey,
                     keys, sockets, meInfo, privKey, registered, publicKey, granted>>
  BY DEF SendPublicKey, transferLocals, serverVars, runVars, processVars, diskVars, accountVars
<1>2. /\ responses = <<>> /\ connected \in BOOLEAN
      /\ sends' \in [RequestCode -> Nat]
      /\ sends'[SEND_FILE] = 0 /\ sends'[CRC_CORRECT] = 0 /\ sends'[CRC_INCORRECT_DONE] = 0
  BY <1>1, SendInFlow
<1>3. \/ /\ pc' = AwaitKey /\ connected
         /\ requests' = <<[code |-> SEND_PUBLIC_KEY, payload |-> upload]>>
      \/ pc' = AwaitKey /\ ~connected /\ requests' = <<>>
      \/ pc' = "killed" /\ ~connected /\ requests' = <<>>
  BY <1>1, SendInFlow
<1>4. pc' \in {AwaitKey, "killed"}
  BY <1>3
<1>5. /\ retry_count = 0 /\ ~status /\ accepted = NoFile /\ privateKey # 0
      /\ clientId \in Name \cup {UninitId} /\ privateKey \in 0 .. keys /\ keys \in Nat
  BY <1>1 DEF RunInv, TypeOK, BeforeInv, GrantedInv
<1>6. TypeOK'
  BY <1>1, <1>4 DEF RunInv, TypeOK, Awaiting
<1>7. QueueInv'
  <2>1. upload \in [id : Name \cup {UninitId}, key : 1 .. keys]
    BY <1>5
  <2>2. [code |-> SEND_PUBLIC_KEY, payload |-> upload] \in SentRequest'
    BY <1>1, <2>1 DEF SentRequest
  <2> QED
    BY <1>1, <1>2, <1>3, <2>2 DEF QueueInv
<1>8. CountInv'
  BY <1>1, <1>4 DEF RunInv, CountInv
<1>9. BeforeInv'
  BY <1>1, <1>2, <1>4, <1>5 DEF BeforeInv
<1>10. HandshakeInv'
  <2>1. CASE pc' = "killed"
    BY <2>1 DEF HandshakeInv
  <2>2. CASE pc' = AwaitKey
    <3>1. Outstanding' = [code |-> SEND_PUBLIC_KEY, payload |-> upload]
      BY <1>1, <2>2 DEF Outstanding, AwaitedRequest
    <3> QED
      BY <1>1, <1>2, <1>3, <2>2, <3>1 DEF HandshakeInv
  <2> QED
    BY <1>4, <2>1, <2>2
<1>11. GrantedInv' /\ DiskInv' /\ UploadsUnderListedKey'
  BY <1>1, <1>4 DEF RunInv, GrantedInv, DiskInv, UploadsUnderListedKey
<1>12. UploadInv'
  <2>1. ASSUME pc' = "killed" PROVE TransferInv'
    BY <1>1, <1>2, <1>3, <1>5, <1>6, <2>1, FreshTransfer
  <2> QED
    BY <1>4, <2>1 DEF UploadInv
<1>13. AccountInv' /\ SavedIdentityIsRegistered'
  BY <1>1 DEF RunInv, AccountInv, SavedIdentityIsRegistered
<1> QED
  BY <1>6, <1>7, <1>8, <1>9, <1>10, <1>11, <1>12, <1>13 DEF RunInv

\* A reply that holds this run's key was written after the server listed it.
LEMMA KeyAnsweredInv ==
  ASSUME TransferAssumption, RunAssumption, RunInv, KeyAnswered
  PROVE  RunInv'
<1>1. /\ pc = AwaitKey /\ ConsumeResponse
      /\ UNCHANGED <<requests, connected, sends, retry_count, status, calculatedCRC,
                     stored, accepted, file, runs, clientId, privateKey, keys, sockets,
                     meInfo, privKey, registered, publicKey, granted>>
  BY DEF KeyAnswered, serverVars, diskVars, accountVars
<1>2. PICK r \in GetResponse :
        IF r.code = RECEIVED_PUBLIC_KEY_SEND_AES /\ Decrypts(r.payload)
        THEN \/ /\ file # NoFile
                /\ encrypted' = file
                /\ pc' = "loop" /\ NoError
             \/ /\ file = NoFile
                /\ UNCHANGED encrypted /\ RuntimeError
        ELSE pc' = "off" /\ UNCHANGED encrypted /\ NoError
  BY DEF KeyAnswered
<1>3. /\ requests = <<>> /\ responses' = <<>>
      /\ \/ r.payload = privateKey /\ Entitled
         \/ r.payload = EmptyPayload
  BY <1>1, ReceiveInFlow DEF Grant
<1>4. privKey' \in {NoFile} \cup 0 .. keys
  BY <1>1 DEF RunInv, TypeOK
<1>5. CASE pc' = "off" /\ UNCHANGED encrypted /\ NoError
  BY <1>1, <1>3, <1>4, <1>5, OffInv DEF NoError
<1>6. CASE UNCHANGED encrypted /\ RuntimeError
  BY <1>1, <1>3, <1>4, <1>6, RuntimeErrorInv
<1>7. CASE /\ Decrypts(r.payload) /\ file # NoFile
           /\ encrypted' = file /\ pc' = "loop" /\ NoError
  <2>1. UNCHANGED <<inTry, clientName>>
    BY <1>7 DEF NoError
  <2>2. privateKey \in Nat /\ privateKey # 0
    BY <1>1 DEF RunInv, TypeOK, GrantedInv
  <2>3. Entitled
    BY <1>3, <1>7, <2>2 DEF Decrypts, RunAssumption
  <2>4. TypeOK'
    BY <1>1, <1>7, <2>1 DEF RunInv, TypeOK
  <2>5. QueueInv' /\ HandshakeInv' /\ GrantedInv'
    BY <1>1, <1>3, <1>7 DEF QueueInv, HandshakeInv, GrantedInv
  <2>6. CountInv' /\ BeforeInv'
    BY <1>1, <1>7, <2>1 DEF RunInv, CountInv, BeforeInv
  <2>7. DiskInv'
    BY <1>1, <1>7, <2>1 DEF RunInv, DiskInv
  <2>8. UploadsUnderListedKey'
    BY <1>1, <2>1, <2>2, <2>3 DEF UploadsUnderListedKey, Entitled
  <2>9. TransferInv'
    <3>1. /\ retry_count = 0 /\ ~status /\ accepted = NoFile
          /\ sends \in [RequestCode -> Nat]
          /\ sends[SEND_FILE] = 0 /\ sends[CRC_CORRECT] = 0 /\ sends[CRC_INCORRECT_DONE] = 0
      BY <1>1 DEF RunInv, BeforeInv
    <3> QED
      BY <1>1, <1>3, <1>7, <2>4, <3>1, FreshTransfer
  <2>10. UploadInv'
    BY <2>9 DEF UploadInv
  <2>11. AccountInv' /\ SavedIdentityIsRegistered'
    BY <1>1 DEF RunInv, AccountInv, SavedIdentityIsRegistered
  <2> QED
    BY <2>4, <2>5, <2>6, <2>7, <2>8, <2>10, <2>11 DEF RunInv
<1> QED
  BY <1>2, <1>5, <1>6, <1>7

-----------------------------------------------------------------------------
(* The file transfer, the end of a run and its surroundings keep it.       *)

\* While the file is sent, the run around it stands still.
LEMMA UploadingInv ==
  ASSUME RunInv, pc \in Uploading \/ (pc = "killed" /\ pc' = pc),
         TransferInv', UNCHANGED runVars
  PROVE  RunInv'
<1>1. UNCHANGED <<runs, inTry, clientName, clientId, privateKey, keys, sockets,
                  meInfo, privKey, registered, publicKey, granted>>
  BY DEF runVars, processVars, diskVars, accountVars
<1>2. pc' \in Transferring
  BY DEF TransferInv, TransferTypeOK
<1>3. TypeOK'
  <2>1. TransferTypeOK'
    BY DEF TransferInv
  <2>2. connected' \in BOOLEAN /\ status' \in BOOLEAN
    BY <2>1 DEF TransferTypeOK
  <2>3. /\ retry_count' \in 0 .. MaxRetries
        /\ calculatedCRC' \in CRC /\ encrypted' \in Content
        /\ {file', stored', accepted'} \subseteq Content \cup {NoFile}
    BY <2>1 DEF TransferTypeOK
  <2>4. /\ runs' \in 0 .. MaxRuns /\ sockets' \in 0 .. 2
        /\ clientName' \in Name /\ clientId' \in Name \cup {UninitId}
        /\ keys' \in 1 .. 1 + 2 * MaxRuns /\ privateKey' \in 0 .. keys'
        /\ meInfo' \in {NoFile} \cup
             [name : Name, id : Name \cup {UninitId, StaleId}, key : 0 .. keys']
        /\ privKey' \in {NoFile} \cup 0 .. keys'
        /\ registered' \subseteq Name /\ publicKey' \in [Name -> 0 .. keys']
    BY <1>1 DEF RunInv, TypeOK
  <2>5. inTry' \in BOOLEAN /\ granted' \in BOOLEAN
    BY <1>1 DEF RunInv, TypeOK
  <2> QED
    BY <1>2, <2>2, <2>3, <2>4, <2>5 DEF TypeOK
<1>4. QueueInv'
  BY TransferQueueAllowed, PTL
<1>5. CountInv'
  BY <1>1, <1>2 DEF RunInv, CountInv
<1>6. /\ BeforeInv' /\ HandshakeInv' /\ GrantedInv'
  BY <1>2 DEF BeforeInv, HandshakeInv, GrantedInv
<1>7. AccountInv' /\ SavedIdentityIsRegistered'
  BY <1>1 DEF RunInv, AccountInv, SavedIdentityIsRegistered
<1>8. UploadInv'
  BY DEF UploadInv
<1>9. DiskInv' /\ UploadsUnderListedKey'
  BY <1>1 DEF RunInv, DiskInv, UploadsUnderListedKey
<1> QED
  BY <1>3, <1>4, <1>5, <1>6, <1>7, <1>8, <1>9 DEF RunInv

\* A step of the transfer is one of the module FileTransfer, whose invariant
\* it keeps.
LEMMA TransferClientInv ==
  ASSUME TransferAssumption, MayCloseAssumption, RunInv, TransferClient, UNCHANGED runVars
  PROVE  RunInv'
<1>1. pc \in Uploading
  BY ClientSteps
<1>2. TransferInv
  BY <1>1 DEF RunInv, UploadInv
<1>3. TransferInv'
  BY <1>2, StepInv DEF TransferNext
<1> QED
  BY <1>1, <1>3, UploadingInv

\* The process ends by itself or is killed, in whatever state that leaves the
\* connection, the disk and the server.
LEMMA ExitOrCrashInv ==
  ASSUME RunInv, Exit \/ Crash
  PROVE  RunInv'
<1>1. /\ pc' = "off"
      /\ UNCHANGED <<requests, responses, connected, sends, retry_count, status, calculatedCRC,
                     encrypted, stored, accepted, file, runs, inTry, clientName, clientId,
                     privateKey, keys, sockets, meInfo, privKey, registered, publicKey, granted>>
  BY DEF Exit, Crash, connVars, transferLocals, serverVars, runVars, processVars,
         diskVars, accountVars
<1>2. privKey' \in {NoFile} \cup 0 .. keys
  BY <1>1 DEF RunInv, TypeOK
<1> QED
  BY <1>1, <1>2, OffInv

\* Where no client waits, the server may do what it likes with the request a
\* killed client left.
LEMMA ServerAloneInv ==
  ASSUME RunInv, pc \in {"off", "connect"}, requests' = <<>>, connected' \in BOOLEAN,
         {stored', accepted'} \subseteq Content \cup {NoFile},
         registered \subseteq registered', registered' \subseteq Name,
         publicKey' \in [Name -> 0 .. keys], AccountInv', granted' \in BOOLEAN,
         UNCHANGED <<pc, retry_count, status, calculatedCRC, encrypted, file, runs, inTry,
                     clientName, clientId, privateKey, keys, sockets, meInfo, privKey>>
  PROVE  RunInv'
<1>1. TypeOK'
  BY DEF RunInv, TypeOK
<1>2. QueueInv'
  BY DEF QueueInv
<1>3. CountInv' /\ BeforeInv'
  BY DEF RunInv, CountInv, BeforeInv
<1>4. /\ HandshakeInv' /\ GrantedInv' /\ DiskInv' /\ UploadInv' /\ UploadsUnderListedKey'
  BY DEF HandshakeInv, GrantedInv, DiskInv, UploadInv, UploadsUnderListedKey
<1>5. SavedIdentityIsRegistered'
  BY DEF RunInv, SavedIdentityIsRegistered
<1> QED
  BY <1>1, <1>2, <1>3, <1>4, <1>5 DEF RunInv

\* The server answers a request of a flow; if the client is still there, the
\* answer grants what the server did, or grants nothing.
LEMMA ServerAnswersInv ==
  ASSUME RunAssumption, RunInv, NEW c \in {REGISTRATION, RECONNECT, SEND_PUBLIC_KEY}, Takes(c),
         NEW code \in RepliesTo(c), NEW payload, Reply(code, payload),
         registered \subseteq registered', registered' \subseteq Name,
         publicKey' \in [Name -> 0 .. keys], AccountInv', granted' \in BOOLEAN,
         pc \in HandshakeAwaiting =>
           \/ code \notin GrantCode /\ payload = EmptyPayload
           \/ payload = Grant /\ Entitled',
         UNCHANGED <<pc, retry_count, status, calculatedCRC, encrypted, stored, accepted,
                     file, runs, inTry, clientName, clientId, privateKey, keys, sockets,
                     meInfo, privKey>>
  PROVE  RunInv'
<1>1. /\ connected /\ connected \in BOOLEAN /\ responses = <<>> /\ requests' = <<>>
      /\ \/ pc \in {"off", "connect"}
         \/ /\ pc \in HandshakeAwaiting /\ requests = <<Outstanding>>
            /\ AwaitedRequest(pc) = c
         \/ pc \in TransferAwaiting /\ Awaited(pc) = c
  BY TakeRequest
<1>2. /\ sends' = sends /\ connected' \in BOOLEAN
      /\ \/ connected' /\ responses' = <<[code |-> code, payload |-> payload]>>
         \/ ~connected' /\ responses' = <<[code |-> code, payload |-> EmptyPayload]>>
         \/ ~connected' /\ responses' = <<>>
  BY <1>1, ReplyOnIdle
<1>3. CASE pc \in {"off", "connect"}
  <2>1. {stored', accepted'} \subseteq Content \cup {NoFile}
    BY DEF RunInv, TypeOK
  <2> QED
    BY <1>1, <1>2, <1>3, <2>1, ServerAloneInv
<1>4. CASE pc \in HandshakeAwaiting /\ requests = <<Outstanding>> /\ AwaitedRequest(pc) = c
  <2>1. TypeOK'
    BY <1>2 DEF RunInv, TypeOK
  <2>2. QueueInv'
    BY <1>1 DEF QueueInv
  <2>3. CountInv' /\ BeforeInv'
    BY <1>2 DEF RunInv, CountInv, BeforeInv
  <2>4. HandshakeInv'
    <3>1. Grant' = Grant /\ Grant # EmptyPayload
      BY DEF RunInv, TypeOK, Grant, RunAssumption
    <3>2. AwaitedRequest(pc') = c
      BY <1>4 DEF AwaitedRequest, Awaited
    <3>3. pc' \notin Quiet
      BY <1>4
    <3>4. CASE connected' /\ responses' = <<[code |-> code, payload |-> payload]>>
      <4>1. \/ payload = Grant' /\ Entitled'
            \/ payload = EmptyPayload /\ code \notin GrantCode
        BY <1>4, <3>1
      <4>2. \E cc \in RepliesTo(AwaitedRequest(pc')), p \in {EmptyPayload, Grant'} :
              /\ responses' = <<[code |-> cc, payload |-> p]>>
              /\ p = Grant' => Entitled'
              /\ cc \in GrantCode /\ p = EmptyPayload => ~connected'
        BY <3>1, <3>2, <3>4, <4>1
      <4> QED
        BY <1>1, <3>3, <4>2 DEF HandshakeInv
    <3>5. CASE ~connected' /\ responses' = <<[code |-> code, payload |-> EmptyPayload]>>
      <4>1. \E cc \in RepliesTo(AwaitedRequest(pc')), p \in {EmptyPayload, Grant'} :
              /\ responses' = <<[code |-> cc, payload |-> p]>>
              /\ p = Grant' => Entitled'
              /\ cc \in GrantCode /\ p = EmptyPayload => ~connected'
        BY <3>1, <3>2, <3>5
      <4> QED
        BY <1>1, <3>3, <4>1 DEF HandshakeInv
    <3>6. CASE ~connected' /\ responses' = <<>>
      BY <1>1, <3>3, <3>6 DEF HandshakeInv
    <3> QED
      BY <1>2, <3>4, <3>5, <3>6
  <2>5. GrantedInv'
    BY <1>1, <1>4 DEF RunInv, GrantedInv
  <2>6. DiskInv' /\ UploadInv' /\ UploadsUnderListedKey'
    BY <1>4 DEF RunInv, DiskInv, UploadInv, UploadsUnderListedKey
  <2>7. SavedIdentityIsRegistered'
    BY DEF RunInv, SavedIdentityIsRegistered
  <2> QED
    BY <2>1, <2>2, <2>3, <2>4, <2>5, <2>6, <2>7 DEF RunInv
<1>5. CASE pc \in TransferAwaiting /\ Awaited(pc) = c
  BY <1>5, AwaitedCodes
<1> QED
  BY <1>1, <1>3, <1>4, <1>5

\* A name is registered at most once, and the one who asked is told so.
LEMMA ServerRegistersInv ==
  ASSUME RunAssumption, RunInv, ServerRegisters
  PROVE  RunInv'
<1>1. /\ Takes(REGISTRATION)
      /\ UNCHANGED <<pc, retry_count, status, calculatedCRC, encrypted, stored, accepted,
                     file, runs, inTry, clientName, clientId, privateKey, keys, sockets,
                     meInfo, privKey, publicKey>>
  BY DEF ServerRegisters, clientVars, serverVars, processVars, diskVars
<1>2. PICK m \in SentRequest : requests = <<m>> /\ m.code = REGISTRATION /\ Asked = m.payload
  BY <1>1, TakeRequest
<1>3. Asked \in Name
  BY <1>2 DEF SentRequest
<1>4. pc \in HandshakeAwaiting =>
        pc = AwaitRegistration /\ requests = <<Outstanding>> /\ Asked = clientName
  BY <1>1, TakeRequest, AwaitedCodes DEF Outstanding
<1>5. registered \subseteq Name /\ publicKey' \in [Name -> 0 .. keys]
  BY <1>1 DEF RunInv, TypeOK
<1>6. CASE Asked \in registered
  <2>1. Reply(REGISTRATION_FAILED, EmptyPayload) /\ registered' = registered
    BY <1>6 DEF ServerRegisters
  <2>4. granted' \in BOOLEAN
    <3>1. granted' = FALSE
      BY <1>6 DEF ServerRegisters
    <3> QED
      BY <3>1
  <2>2. AccountInv'
    BY <1>1, <2>1 DEF RunInv, AccountInv
  <2>3. REGISTRATION_FAILED \in RepliesTo(REGISTRATION) /\ REGISTRATION_FAILED \notin GrantCode
    BY DEF RepliesTo, GrantCode
  <2> QED
    BY <1>1, <1>5, <2>1, <2>2, <2>3, <2>4, ServerAnswersInv
<1>7. CASE Asked \notin registered
  <2>1. Reply(REGISTRATION_SUCCESS, Asked) /\ registered' = registered \cup {Asked}
    BY <1>7 DEF ServerRegisters
  <2>6. granted' \in BOOLEAN
    <3>1. granted' = TRUE
      BY <1>7 DEF ServerRegisters
    <3> QED
      BY <3>1
  <2>2. AccountInv'
    BY <1>1, <2>1 DEF RunInv, AccountInv
  <2>3. REGISTRATION_SUCCESS \in RepliesTo(REGISTRATION)
    BY DEF RepliesTo
  <2>4. registered \subseteq registered' /\ registered' \subseteq Name
    BY <1>3, <1>5, <2>1
  <2>5. pc \in HandshakeAwaiting => Asked = Grant /\ Entitled'
    BY <1>1, <1>4, <2>1 DEF Grant, Entitled
  <2> QED
    BY <1>1, <1>5, <2>1, <2>2, <2>3, <2>4, <2>5, <2>6, ServerAnswersInv
<1> QED
  BY <1>6, <1>7

\* A reconnection is approved for a name whose key is listed.
LEMMA ServerReconnectsInv ==
  ASSUME RunAssumption, RunInv, ServerReconnects
  PROVE  RunInv'
<1>1. /\ Takes(RECONNECT)
      /\ UNCHANGED <<pc, retry_count, status, calculatedCRC, encrypted, stored, accepted,
                     file, runs, inTry, clientName, clientId, privateKey, keys, sockets,
                     meInfo, privKey, registered, publicKey>>
  BY DEF ServerReconnects, clientVars, serverVars, runVars, processVars, diskVars, accountVars
<1>2. pc \in HandshakeAwaiting =>
        pc = AwaitReconnection /\ requests = <<Outstanding>> /\ Asked = clientName
  BY <1>1, TakeRequest, AwaitedCodes DEF Outstanding
<1>3. /\ registered \subseteq Name /\ publicKey' \in [Name -> 0 .. keys] /\ AccountInv'
      /\ registered \subseteq registered' /\ registered' \subseteq Name
  BY <1>1 DEF RunInv, TypeOK, AccountInv
<1>4. CASE Asked \in registered /\ publicKey[Asked] # 0
  <2>1. Reply(APPROVE_RECONNECT_SEND_AES, Asked)
    BY <1>4 DEF ServerReconnects
  <2>4. granted' \in BOOLEAN
    <3>1. granted' = TRUE
      BY <1>4 DEF ServerReconnects
    <3> QED
      BY <3>1
  <2>2. APPROVE_RECONNECT_SEND_AES \in RepliesTo(RECONNECT)
    BY DEF RepliesTo
  <2>3. pc \in HandshakeAwaiting => Asked = Grant /\ Entitled'
    BY <1>1, <1>2, <1>4 DEF Grant, Entitled
  <2> QED
    BY <1>1, <1>3, <2>1, <2>2, <2>3, <2>4, ServerAnswersInv
<1>5. CASE ~(Asked \in registered /\ publicKey[Asked] # 0)
  <2>1. Reply(RECONNECT_REJECTED, EmptyPayload)
    BY <1>5 DEF ServerReconnects
  <2>3. granted' \in BOOLEAN
    <3>1. granted' = FALSE
      BY <1>5 DEF ServerReconnects
    <3> QED
      BY <3>1
  <2>2. RECONNECT_REJECTED \in RepliesTo(RECONNECT) /\ RECONNECT_REJECTED \notin GrantCode
    BY DEF RepliesTo, GrantCode
  <2> QED
    BY <1>1, <1>3, <2>1, <2>2, <2>3, ServerAnswersInv
<1> QED
  BY <1>4, <1>5

\* A key is listed under the id it came with, and the reply holds that key.
LEMMA ServerListsKeyInv ==
  ASSUME RunAssumption, RunInv, ServerListsKey
  PROVE  RunInv'
<1>1. /\ Takes(SEND_PUBLIC_KEY) /\ Asked.id \in registered
      /\ publicKey' = [publicKey EXCEPT ![Asked.id] = Asked.key]
      /\ Reply(RECEIVED_PUBLIC_KEY_SEND_AES, Asked.key) /\ granted' \in BOOLEAN
      /\ UNCHANGED <<pc, retry_count, status, calculatedCRC, encrypted, stored, accepted,
                     file, runs, inTry, clientName, clientId, privateKey, keys, sockets,
                     meInfo, privKey, registered>>
  BY DEF ServerListsKey, clientVars, serverVars, processVars, diskVars
<1>2. PICK m \in SentRequest : requests = <<m>> /\ m.code = SEND_PUBLIC_KEY /\ Asked = m.payload
  BY <1>1, TakeRequest
<1>3. Asked.key \in 1 .. keys /\ keys \in Nat
  BY <1>2 DEF SentRequest, RunInv, TypeOK
<1>4. /\ registered \subseteq Name /\ publicKey \in [Name -> 0 .. keys]
      /\ registered \subseteq registered' /\ registered' \subseteq Name
  BY <1>1 DEF RunInv, TypeOK
<1>5. publicKey' \in [Name -> 0 .. keys]
  BY <1>1, <1>3, <1>4
<1>6. AccountInv'
  BY <1>1, <1>4 DEF RunInv, AccountInv
<1>7. pc \in HandshakeAwaiting => Asked.key = Grant /\ Entitled'
  <2> SUFFICES ASSUME pc \in HandshakeAwaiting
               PROVE  Asked.key = Grant /\ Entitled'
    OBVIOUS
  <2>1. pc = AwaitKey /\ connected /\ Asked = Outstanding.payload
    BY <1>1, TakeRequest, AwaitedCodes
  <2>2. Asked = [id |-> clientId, key |-> privateKey]
    BY <2>1 DEF Outstanding
  <2>3. clientId = clientName /\ clientName \in registered
    BY <2>1 DEF RunInv, GrantedInv
  <2>4. publicKey'[clientName] = privateKey
    BY <1>1, <1>4, <2>2, <2>3
  <2> QED
    BY <1>1, <2>1, <2>2, <2>3, <2>4 DEF Grant, Entitled
<1>8. RECEIVED_PUBLIC_KEY_SEND_AES \in RepliesTo(SEND_PUBLIC_KEY)
  BY DEF RepliesTo
<1> QED
  BY <1>1, <1>4, <1>5, <1>6, <1>7, <1>8, ServerAnswersInv

\* A refusal grants nothing.
LEMMA ServerRefusesClientInv ==
  ASSUME RunAssumption, RunInv, ServerRefusesClient
  PROVE  RunInv'
<1>1. granted' \in BOOLEAN
  <2>1. granted' = FALSE
    BY DEF ServerRefusesClient
  <2> QED
    BY <2>1
<1>2. PICK c \in {REGISTRATION, RECONNECT, SEND_PUBLIC_KEY} : Takes(c)
  BY DEF ServerRefusesClient
<1>3. /\ Reply(OTHER_CODE, EmptyPayload)
      /\ UNCHANGED <<pc, retry_count, status, calculatedCRC, encrypted, stored, accepted,
                     file, runs, inTry, clientName, clientId, privateKey, keys, sockets,
                     meInfo, privKey, registered, publicKey>>
  BY DEF ServerRefusesClient, clientVars, serverVars, runVars, processVars, diskVars, accountVars
<1>4. /\ publicKey' \in [Name -> 0 .. keys] /\ AccountInv'
      /\ registered \subseteq registered' /\ registered' \subseteq Name
  BY <1>3 DEF RunInv, TypeOK, AccountInv
<1>5. OTHER_CODE \in RepliesTo(c) /\ OTHER_CODE \notin GrantCode
  BY DEF RepliesTo, GrantCode
<1> QED
  BY <1>1, <1>2, <1>3, <1>4, <1>5, ServerAnswersInv

\* A request of a transfer is taken from a client that waits in one, or from
\* one that is gone.
LEMMA TransferServerInv ==
  ASSUME TransferAssumption, MayCloseAssumption, RunInv, TransferServer, UNCHANGED runVars
  PROVE  RunInv'
<1>1. PICK c \in SEND_FILE .. CRC_INCORRECT_DONE : Takes(c)
  BY DEF TransferServer, ServerStores, ServerAccepts, ServerAcknowledges, ServerRefuses
<1>2. /\ UNCHANGED <<pc, retry_count, status, calculatedCRC, encrypted, file, runs, inTry,
                     clientName, clientId, privateKey, keys, sockets, meInfo, privKey,
                     registered, publicKey, granted>>
      /\ {stored', accepted'} \subseteq Content \cup {NoFile}
      /\ \E code, payload : Reply(code, payload)
  BY DEF TransferServer, ServerStores, ServerAccepts, ServerAcknowledges, ServerRefuses,
         clientVars, serverVars, runVars, processVars, diskVars, accountVars, RunInv, TypeOK
<1>3. /\ connected /\ connected \in BOOLEAN /\ responses = <<>> /\ requests' = <<>>
      /\ \/ pc \in {"off", "connect"}
         \/ pc \in HandshakeAwaiting /\ AwaitedRequest(pc) = c
         \/ pc \in TransferAwaiting
  BY <1>1, TakeRequest
<1>4. CASE pc \in {"off", "connect"}
  <2>1. connected' \in BOOLEAN
    BY <1>2, <1>3, ReplyOnIdle
  <2>2. /\ publicKey' \in [Name -> 0 .. keys] /\ AccountInv' /\ granted' \in BOOLEAN
        /\ registered \subseteq registered' /\ registered' \subseteq Name
    BY <1>2 DEF RunInv, TypeOK, AccountInv
  <2> QED
    BY <1>2, <1>3, <1>4, <2>1, <2>2, ServerAloneInv
<1>5. CASE pc \in HandshakeAwaiting /\ AwaitedRequest(pc) = c
  BY <1>5, AwaitedCodes
<1>6. CASE pc \in TransferAwaiting
  <2>1. TransferInv
    BY <1>6 DEF RunInv, UploadInv
  <2>2. TransferInv'
    BY <2>1, StepInv DEF TransferNext
  <2> QED
    BY <1>6, <2>2, UploadingInv
<1> QED
  BY <1>3, <1>4, <1>5, <1>6

\* A close takes the request that is under way with it.
LEMMA CloseInv ==
  ASSUME TransferAssumption, MayCloseAssumption, RunInv, ServerGoes, UNCHANGED runVars
  PROVE  RunInv'
<1>1. /\ connected' = FALSE /\ requests' = <<>>
      /\ UNCHANGED <<responses, sends, pc, retry_count, status, calculatedCRC, encrypted,
                     file, stored, accepted, runs, inTry, clientName, clientId, privateKey,
                     keys, sockets, meInfo, privKey, registered, publicKey, granted>>
  BY DEF ServerGoes, ServerCloses, clientVars, serverVars, runVars, processVars,
         diskVars, accountVars
<1>2. ~connected' /\ connected' \in BOOLEAN
  BY <1>1
<1>3. CASE pc \in Transferring
  <2>1. TransferInv
    BY <1>3 DEF RunInv, UploadInv
  <2>2. TransferInv'
    BY <2>1, StepInv DEF TransferNext
  <2> QED
    BY <1>1, <1>3, <2>2, UploadingInv
<1>4. CASE pc \notin Transferring
  <2>1. TypeOK'
    BY <1>1, <1>2 DEF RunInv, TypeOK
  <2>2. QueueInv'
    BY <1>1 DEF QueueInv
  <2>3. CountInv' /\ BeforeInv'
    BY <1>1 DEF RunInv, CountInv, BeforeInv
  <2>4. HandshakeInv'
    <3>1. CASE pc \in HandshakeAwaiting /\ responses # <<>>
      <4>1. PICK c \in RepliesTo(AwaitedRequest(pc)), p \in {EmptyPayload, Grant} :
              /\ responses = <<[code |-> c, payload |-> p]>>
              /\ p = Grant => Entitled
        BY <3>1 DEF RunInv, HandshakeInv
      <4>2. Grant' = Grant /\ Entitled' = Entitled
        BY <1>1 DEF Grant, Entitled
      <4>3. AwaitedRequest(pc') = AwaitedRequest(pc)
        BY <1>1
      <4> QED
        BY <1>1, <1>2, <3>1, <4>1, <4>2, <4>3 DEF HandshakeInv
    <3>2. CASE pc \in HandshakeAwaiting /\ responses = <<>>
      BY <1>1, <1>2, <3>2 DEF HandshakeInv
    <3>3. CASE pc \notin HandshakeAwaiting
      BY <1>1, <3>3 DEF RunInv, HandshakeInv
    <3> QED
      BY <3>1, <3>2, <3>3
  <2>5. GrantedInv' /\ DiskInv'
    BY <1>1, <1>2 DEF RunInv, GrantedInv, DiskInv
  <2>6. UploadInv' /\ UploadsUnderListedKey'
    BY <1>1, <1>4 DEF UploadInv, UploadsUnderListedKey
  <2>7. AccountInv' /\ SavedIdentityIsRegistered'
    BY <1>1 DEF RunInv, AccountInv, SavedIdentityIsRegistered
  <2> QED
    BY <2>1, <2>2, <2>3, <2>4, <2>5, <2>6, <2>7 DEF RunInv
<1> QED
  BY <1>3, <1>4

\* Only the transfer looks at the file.
LEMMA EditInv ==
  ASSUME TransferAssumption, MayCloseAssumption, RunInv, FileChanges, UNCHANGED runVars
  PROVE  RunInv'
<1>1. /\ file' \in Content \cup {NoFile}
      /\ UNCHANGED <<requests, responses, connected, sends, pc, retry_count, status,
                     calculatedCRC, encrypted, stored, accepted, runs, inTry, clientName,
                     clientId, privateKey, keys, sockets, meInfo, privKey, registered,
                     publicKey, granted>>
  BY DEF FileChanges, connVars, clientVars, serverVars, runVars, processVars,
         diskVars, accountVars
<1>2. CASE pc \in Transferring
  <2>1. TransferInv
    BY <1>2 DEF RunInv, UploadInv
  <2>2. TransferInv'
    BY <2>1, StepInv DEF TransferNext
  <2> QED
    BY <1>1, <1>2, <2>2, UploadingInv
<1>3. CASE pc \notin Transferring
  <2>1. TypeOK'
    BY <1>1 DEF RunInv, TypeOK
  <2>2. QueueInv' /\ CountInv' /\ BeforeInv'
    BY <1>1 DEF RunInv, QueueInv, SentRequest, CountInv, BeforeInv
  <2>3. HandshakeInv'
    BY <1>1 DEF RunInv, HandshakeInv, Outstanding, Grant, Entitled
  <2>4. GrantedInv' /\ DiskInv'
    BY <1>1 DEF RunInv, GrantedInv, DiskInv
  <2>5. UploadInv' /\ UploadsUnderListedKey'
    BY <1>1, <1>3 DEF UploadInv, UploadsUnderListedKey
  <2>6. AccountInv' /\ SavedIdentityIsRegistered'
    BY <1>1 DEF RunInv, AccountInv, SavedIdentityIsRegistered
  <2> QED
    BY <2>1, <2>2, <2>3, <2>4, <2>5, <2>6 DEF RunInv
<1> QED
  BY <1>2, <1>3

\* Every step of the runs, and none, keeps the invariant.
LEMMA RunStep ==
  ASSUME TransferAssumption, MayCloseAssumption, RunAssumption, RunInv, [Next]_vars
  PROVE  RunInv'
<1>1. CASE Start
  BY <1>1, StartInv
<1>2. CASE RunClient
  <2>1. CASE Connect
    BY <2>1, ConnectInv
  <2>2. CASE SendRegistration \/ SendReconnection
    BY <2>2, ConnectionRequestInv
  <2>3. CASE RegistrationAnswered
    BY <2>3, RegistrationAnsweredInv
  <2>4. CASE ReconnectionAnswered
    BY <2>4, ReconnectionAnsweredInv
  <2>5. CASE OpenKeyFile
    BY <2>5, OpenKeyFileInv
  <2>6. CASE WriteKeyOpenMeInfo
    BY <2>6, WriteKeyInv
  <2>7. CASE WriteMeInfo
    BY <2>7, WriteMeInfoInv
  <2>8. CASE SendPublicKey
    BY <2>8, SendPublicKeyInv
  <2>9. CASE KeyAnswered
    BY <2>9, KeyAnsweredInv
  <2>10. CASE TransferClient /\ UNCHANGED runVars
    BY <2>10, TransferClientInv
  <2>11. CASE Exit
    BY <2>11, ExitOrCrashInv
  <2> QED
    BY <1>2, <2>1, <2>2, <2>3, <2>4, <2>5, <2>6, <2>7, <2>8, <2>9, <2>10, <2>11
    DEF RunClient
<1>3. CASE RunServer
  BY <1>3, ServerRegistersInv, ServerReconnectsInv, ServerListsKeyInv,
     ServerRefusesClientInv, TransferServerInv
  DEF RunServer
<1>4. CASE Surroundings
  BY <1>4, CloseInv, EditInv, ExitOrCrashInv DEF Surroundings
<1>5. CASE UNCHANGED vars
  <2>1. UNCHANGED transferVars /\ UNCHANGED runVars
    BY <1>5 DEF vars
  <2>2. UNCHANGED <<requests, responses, connected, sends, pc, retry_count, status,
                    calculatedCRC, encrypted, file, stored, accepted, runs, inTry,
                    clientName, clientId, privateKey, keys, sockets, meInfo, privKey,
                    registered, publicKey, granted>>
    BY <2>1 DEF transferVars, connVars, clientVars, serverVars, runVars, processVars,
               diskVars, accountVars
  <2>3. TypeOK' /\ AccountInv' /\ SavedIdentityIsRegistered'
    BY <2>2 DEF RunInv, TypeOK, AccountInv, SavedIdentityIsRegistered
  <2>4. QueueInv' /\ CountInv' /\ BeforeInv'
    BY <2>2 DEF RunInv, QueueInv, SentRequest, CountInv, BeforeInv
  <2>5. HandshakeInv' /\ GrantedInv'
    BY <2>2 DEF RunInv, HandshakeInv, Outstanding, Grant, Entitled, GrantedInv
  <2>6. DiskInv' /\ UploadsUnderListedKey'
    BY <2>2 DEF RunInv, DiskInv, UploadsUnderListedKey
  <2>7. UploadInv'
    <3>1. TransferInv => TransferInv'
      BY <2>1, StepInv
    <3> QED
      BY <2>2, <3>1 DEF RunInv, UploadInv
  <2> QED
    BY <2>3, <2>4, <2>5, <2>6, <2>7 DEF RunInv
<1> QED
  BY <1>1, <1>2, <1>3, <1>4, <1>5 DEF Next

-----------------------------------------------------------------------------
(* The theorems.                                                           *)

\* The inductive invariant holds in every state of every run, for any names,
\* contents and checksums, any number of runs and attempts, with or without
\* closes, crashes and disk errors.
THEOREM RunInvariance == Spec => []RunInv
<1>1. Init => RunInv
  BY RunInit, TransferAssumption, RunAssumption
<1>2. RunInv /\ [Next]_vars => RunInv'
  BY RunStep, TransferAssumption, MayCloseAssumption, RunAssumption
<1> QED
  BY <1>1, <1>2, PTL DEF Spec

\* Every variable keeps its type; in particular no run opens more than two
\* connections or generates more than two key pairs (handleClient falls back
\* once).
THEOREM RunTypeCorrectness == Spec => []TypeOK
<1>1. RunInv => TypeOK
  BY DEF RunInv
<1> QED
  BY <1>1, RunInvariance, PTL

\* Each getResponse of the flows and of the transfer can only return the reply
\* to the request of the same call, through fallbacks, second connections,
\* crashes and later runs.
THEOREM ExchangesStayPaired == Spec => []ExchangesArePaired
<1>1. ASSUME RunInv PROVE ExchangesArePaired
  <2>1. CASE pc \in {"off", "connect", "killed"}
    BY <2>1 DEF ExchangesArePaired, Awaiting
  <2>2. CASE pc \in Quiet
    BY <1>1, <2>2 DEF RunInv, HandshakeInv, ExchangesArePaired, Awaiting
  <2>3. CASE pc \in HandshakeAwaiting
    <3>1. CASE requests = <<Outstanding>> /\ responses = <<>>
      <4>1. Len(requests) = 1 /\ requests[1].code = AwaitedRequest(pc) /\ Len(responses) = 0
        BY <3>1, OneMessage DEF Outstanding
      <4> QED
        BY <2>3, <4>1 DEF ExchangesArePaired
    <3>2. CASE ~connected /\ requests = <<>> /\ responses = <<>>
      BY <2>3, <3>2 DEF ExchangesArePaired
    <3>3. ASSUME requests = <<>>,
                 NEW c \in RepliesTo(AwaitedRequest(pc)), NEW p,
                 responses = <<[code |-> c, payload |-> p]>>
          PROVE  ExchangesArePaired
      <4>1. Len(responses) = 1 /\ responses[1].code = c /\ Len(requests) = 0
        BY <3>3, OneMessage
      <4> QED
        BY <2>3, <4>1 DEF ExchangesArePaired
    <3> QED
      BY <1>1, <2>3, <3>1, <3>2, <3>3 DEF RunInv, HandshakeInv
  <2>4. CASE pc \in Uploading
    <3>1. RepliesArePaired
      BY <1>1, <2>4 DEF RunInv, UploadInv, TransferInv
    <3>2. pc \in TransferAwaiting =>
            AwaitedRequest(pc) = Awaited(pc) /\ RepliesTo(AwaitedRequest(pc)) = AnswersTo(Awaited(pc))
      BY AwaitedCodes DEF RepliesTo
    <3> QED
      BY <2>4, <3>1, <3>2 DEF RepliesArePaired, ExchangesArePaired, Awaiting
  <2> QED
    BY <1>1, <2>1, <2>2, <2>3, <2>4 DEF RunInv, TypeOK, Awaiting
<1> QED
  BY <1>1, RunInvariance, PTL

\* No file is sent before the server listed the key of the very run that
\* sends it, under the id and the name it uses.
THEOREM UploadsAreUnderListedKey == Spec => []UploadsUnderListedKey
<1>1. RunInv => UploadsUnderListedKey
  BY DEF RunInv
<1> QED
  BY <1>1, RunInvariance, PTL

\* An assigned id in me.info belongs to the registered name saved with it.
THEOREM SavedIdentitiesAreRegistered == Spec => []SavedIdentityIsRegistered
<1>1. RunInv => SavedIdentityIsRegistered
  BY DEF RunInv
<1> QED
  BY <1>1, RunInvariance, PTL

\* If opening and writing files never fails, a run that returns true over a
\* connection still open leaves an accepted file, and on disk the identity and
\* the key that the server lists.
THEOREM SuccessIsWhole ==
  ASSUME ~DiskMayFail
  PROVE  Spec => []SuccessIsComplete
<1>1. ASSUME RunInv PROVE SuccessIsComplete
  <2> SUFFICES ASSUME pc = "returned", status, connected
               PROVE  /\ accepted # NoFile
                      /\ publicKey[clientName] = privateKey /\ privKey = privateKey
                      /\ meInfo = MeInfo(clientName, clientName, privateKey)
    BY DEF SuccessIsComplete
  <2>1. accepted # NoFile
    BY <1>1 DEF RunInv, UploadInv, TransferInv, AgreementInv, ResultAgrees
  <2>2. clientId = clientName /\ publicKey[clientName] = privateKey
    BY <1>1 DEF RunInv, UploadsUnderListedKey
  <2>3. privKey = privateKey /\ meInfo = MeInfo(clientName, clientId, privateKey)
    BY <1>1 DEF RunInv, DiskInv
  <2> QED
    BY <2>1, <2>2, <2>3
<1> QED
  BY <1>1, RunInvariance, PTL

\* me.info and priv.key change in the steps that save them only.
LEMMA WhoTouchesTheDisk ==
  ASSUME [Next]_vars, <<meInfo, privKey>>' # <<meInfo, privKey>>
  PROVE  pc \in Saving
<1>1. CASE Start \/ Connect \/ SendRegistration \/ SendReconnection \/ SendPublicKey \/ Exit
  <2>1. UNCHANGED diskVars
    BY <1>1 DEF Start, Connect, SendRegistration, SendReconnection,
       ConnectionRequest, SendPublicKey, Exit, runVars
  <2> QED
    BY <2>1 DEF diskVars
<1>2. CASE RegistrationAnswered \/ ReconnectionAnswered \/ KeyAnswered
  <2>1. UNCHANGED diskVars
    BY <1>2 DEF RegistrationAnswered, ReconnectionAnswered, KeyAnswered
  <2> QED
    BY <2>1 DEF diskVars
<1>3. CASE UNCHANGED runVars
  BY <1>3 DEF runVars, diskVars
<1>4. CASE RunServer \/ Surroundings
  BY <1>4 DEF RunServer, ServerRegisters, ServerReconnects, ServerListsKey,
     ServerRefusesClient, Surroundings, Crash, runVars, diskVars
<1>5. CASE UNCHANGED vars
  BY <1>3, <1>5 DEF vars
<1>6. CASE OpenKeyFile \/ WriteKeyOpenMeInfo \/ WriteMeInfo
  BY <1>6 DEF OpenKeyFile, WriteKeyOpenMeInfo, WriteMeInfo
<1> QED
  BY <1>1, <1>2, <1>3, <1>4, <1>5, <1>6 DEF Next, RunClient

\* handleRetrySendFile stays within itself.
LEMMA TransferStays ==
  ASSUME TransferClient
  PROVE  pc' \in Transferring
<1>1. \A code, payload, await : SendAndAwait(code, payload, await) => pc' \in {await, "killed"}
  BY DEF SendAndAwait
<1>2. CASE Attempt
  BY <1>1, <1>2 DEF Attempt
<1>3. CASE GiveUp
  BY <1>1, <1>3 DEF GiveUp
<1>4. CASE CrcMatches
  BY <1>1, <1>4 DEF CrcMatches
<1>5. CASE CrcDiffers
  BY <1>1, <1>5 DEF CrcDiffers
<1>6. CASE FileRefused \/ ResendAnswered
  BY <1>6 DEF FileRefused, ResendAnswered
<1>7. CASE CorrectAnswered
  BY <1>7 DEF CorrectAnswered
<1>8. CASE DoneAnswered
  BY <1>8 DEF DoneAnswered
<1> QED
  BY <1>2, <1>3, <1>4, <1>5, <1>6, <1>7, <1>8 DEF TransferClient

\* The client goes on to save only upon what reads like a grant.
LEMMA ClientKeepsGrants ==
  ASSUME RunInv, GrantHistoryInv, Start \/ RunClient \/ Crash
  PROVE  GrantHistoryInv'
<1>1. ASSUME pc' \notin Saving \cup {AwaitRegistration, AwaitReconnection}
      PROVE  GrantHistoryInv'
  BY <1>1 DEF GrantHistoryInv
<1>2. CASE Start \/ Connect \/ SendPublicKey \/ KeyAnswered \/ Exit \/ Crash
  BY <1>1, <1>2 DEF Start, Connect, SendPublicKey, SendAndAwait, KeyAnswered, RuntimeError,
     Exit, Crash
<1>3. CASE TransferClient
  BY <1>1, <1>3, TransferStays
<1>4. ASSUME NEW flow \in {"register", "reconnect"}, NEW code, NEW await,
             ConnectionRequest(flow, code, await),
             await \in {AwaitRegistration, AwaitReconnection}
      PROVE  GrantHistoryInv'
  <2>1. pc = flow /\ (pc' = await \/ pc' = "killed") /\ UNCHANGED responses
    BY <1>4 DEF ConnectionRequest, SendAndAwait
  <2>2. responses' = <<>>
    BY <2>1 DEF RunInv, HandshakeInv
  <2> QED
    BY <1>4, <2>1, <2>2 DEF GrantHistoryInv
<1>5. CASE SendRegistration \/ SendReconnection
  BY <1>4, <1>5 DEF SendRegistration, SendReconnection
<1>6. CASE RegistrationAnswered \/ ReconnectionAnswered
  <2>1. PICK r \in GetResponse :
          pc' \in Saving => r.code \in {REGISTRATION_SUCCESS, APPROVE_RECONNECT_SEND_AES}
    BY <1>6 DEF RegistrationAnswered, ReconnectionAnswered
  <2>2. /\ pc \in {AwaitRegistration, AwaitReconnection}
        /\ UNCHANGED <<connected, granted>>
    BY <1>6 DEF RegistrationAnswered, ReconnectionAnswered, accountVars
  <2>3. pc' \notin {AwaitRegistration, AwaitReconnection}
    BY <1>6 DEF RegistrationAnswered, ReconnectionAnswered, Granted
  <2>4. connected => responses # <<>> /\ Head(responses) = r
    BY DEF GetResponse
  <2>5. connected /\ pc' \in Saving => granted
    BY <2>1, <2>2, <2>4 DEF GrantHistoryInv, GrantCode
  <2> QED
    BY <2>2, <2>3, <2>5 DEF GrantHistoryInv
<1>7. CASE OpenKeyFile \/ WriteKeyOpenMeInfo \/ WriteMeInfo
  <2>1. /\ pc \in Saving /\ pc' \in Saving \cup {"connect", "off"}
        /\ UNCHANGED <<connected, granted>>
    BY <1>7 DEF OpenKeyFile, WriteKeyOpenMeInfo, WriteMeInfo, RuntimeError, connVars, accountVars
  <2> QED
    BY <2>1 DEF GrantHistoryInv
<1> QED
  BY <1>2, <1>3, <1>5, <1>6, <1>7 DEF RunClient

\* What the server writes reads like a grant only if it is one.
LEMMA ServerKeepsGrants ==
  ASSUME RunInv, GrantHistoryInv,
         \/ RunServer \/ UNCHANGED vars
         \/ (ServerGoes \/ FileChanges) /\ UNCHANGED runVars
  PROVE  GrantHistoryInv'
<1>1. CASE (FileChanges /\ UNCHANGED runVars) \/ UNCHANGED vars
  <2>1. UNCHANGED <<pc, connected, responses, granted>>
    BY <1>1 DEF FileChanges, connVars, clientVars, vars, transferVars, runVars, accountVars
  <2> QED
    BY <2>1 DEF GrantHistoryInv
<1>2. CASE ServerGoes
  BY <1>2 DEF ServerGoes, ServerCloses, GrantHistoryInv
<1>3. ASSUME NEW c \in RequestCode, Takes(c), NEW code, NEW payload, Reply(code, payload),
             c \in {REGISTRATION, RECONNECT} /\ code \in GrantCode => granted',
             UNCHANGED pc
      PROVE  GrantHistoryInv'
  <2>1. /\ connected /\ connected \in BOOLEAN /\ responses = <<>>
        /\ pc \in HandshakeAwaiting => AwaitedRequest(pc) = c
        /\ pc \notin Saving
    BY <1>3, TakeRequest
  <2>2. CASE pc \in {AwaitRegistration, AwaitReconnection}
    <3>1. c \in {REGISTRATION, RECONNECT}
      BY <2>1, <2>2, AwaitedCodes
    <3>2. connected' => responses' = <<[code |-> code, payload |-> payload]>>
      BY <1>3, <2>1, ReplyOnIdle
    <3>3. connected' => Head(responses').code = code
      BY <3>2, OneMessage
    <3> QED
      BY <1>3, <2>1, <3>1, <3>3 DEF GrantHistoryInv
  <2>3. CASE pc \notin {AwaitRegistration, AwaitReconnection}
    BY <1>3, <2>1, <2>3 DEF GrantHistoryInv
  <2> QED
    BY <2>2, <2>3
<1>4. CASE ServerRegisters
  BY <1>3, <1>4 DEF ServerRegisters, clientVars, GrantCode
<1>5. CASE ServerReconnects
  BY <1>3, <1>5 DEF ServerReconnects, clientVars, GrantCode
<1>6. CASE ServerListsKey
  BY <1>3, <1>6 DEF ServerListsKey, clientVars
<1>7. CASE ServerRefusesClient
  BY <1>3, <1>7 DEF ServerRefusesClient, clientVars, GrantCode
<1>8. CASE TransferServer
  <2>1. PICK c \in SEND_FILE .. CRC_INCORRECT_DONE : Takes(c)
    BY <1>8 DEF TransferServer, ServerStores, ServerAccepts, ServerAcknowledges, ServerRefuses
  <2>2. UNCHANGED pc /\ \E code, payload : Reply(code, payload)
    BY <1>8 DEF TransferServer, ServerStores, ServerAccepts, ServerAcknowledges, ServerRefuses,
       clientVars
  <2> QED
    BY <1>3, <2>1, <2>2
<1> QED
  BY <1>1, <1>2, <1>4, <1>5, <1>6, <1>7, <1>8 DEF RunServer

\* While the connection is open, priv.key and me.info change only if the
\* server's last answer on it was a grant: a refused client keeps its identity.
THEOREM IdentityIsKept == Spec => IdentityKeptUntilGranted
<1>1. Init => GrantHistoryInv
  BY DEF Init, GrantHistoryInv
<1>2. ASSUME RunInv, GrantHistoryInv, [Next]_vars PROVE GrantHistoryInv'
  BY <1>2, ClientKeepsGrants, ServerKeepsGrants DEF Next, Surroundings
<1>3. GrantHistoryInv /\ [Next]_vars =>
        [<<meInfo, privKey>>' # <<meInfo, privKey>> /\ connected => granted]_vars
  BY WhoTouchesTheDisk DEF GrantHistoryInv
<1> QED
  BY <1>1, <1>2, <1>3, RunInvariance, PTL DEF Spec, IdentityKeptUntilGranted

-----------------------------------------------------------------------------
(* Where the documented claims hold.                                       *)

\* Only the client's own steps write to me.info.
LEMMA WhoWritesMeInfo ==
  ASSUME [Next]_vars
  PROVE  UNCHANGED meInfo \/ WriteKeyOpenMeInfo \/ WriteMeInfo
<1>1. CASE Start \/ Connect \/ SendRegistration \/ SendReconnection \/ SendPublicKey \/ Exit
  BY <1>1 DEF Start, Connect, SendRegistration, SendReconnection,
     ConnectionRequest, SendPublicKey, Exit, runVars, diskVars
<1>2. CASE RegistrationAnswered \/ ReconnectionAnswered \/ KeyAnswered \/ OpenKeyFile
  BY <1>2 DEF RegistrationAnswered, ReconnectionAnswered, KeyAnswered, OpenKeyFile, diskVars
<1>3. CASE UNCHANGED runVars
  BY <1>3 DEF runVars, diskVars
<1>4. CASE RunServer \/ Surroundings
  BY <1>4 DEF RunServer, ServerRegisters, ServerReconnects, ServerListsKey,
     ServerRefusesClient, Surroundings, Crash, runVars, diskVars
<1>5. CASE UNCHANGED vars
  BY <1>3, <1>5 DEF vars
<1> QED
  BY <1>1, <1>2, <1>3, <1>4, <1>5 DEF Next, RunClient

\* A server that never closes leaves a connection open once it is made.
LEMMA StaysConnected ==
  ASSUME ~MayClose, pc \notin {"off", "connect"} => connected, [Next]_vars
  PROVE  pc' \notin {"off", "connect"} => connected'
<1> SUFFICES ASSUME pc' \notin {"off", "connect"}
             PROVE  connected'
  OBVIOUS
<1>1. CASE Start \/ Exit \/ Crash
  BY <1>1 DEF Start, Exit, Crash
<1>2. CASE Connect
  BY <1>2 DEF Connect
<1>3. ASSUME pc \notin {"off", "connect"}, UNCHANGED connected
      PROVE  connected'
  BY <1>3
<1>4. CASE SendRegistration \/ SendReconnection \/ SendPublicKey
  BY <1>3, <1>4 DEF SendRegistration, SendReconnection, ConnectionRequest, SendPublicKey
<1>5. CASE RegistrationAnswered \/ ReconnectionAnswered \/ KeyAnswered
  BY <1>3, <1>5 DEF RegistrationAnswered, ReconnectionAnswered, KeyAnswered
<1>6. CASE OpenKeyFile \/ WriteKeyOpenMeInfo \/ WriteMeInfo
  BY <1>3, <1>6 DEF OpenKeyFile, WriteKeyOpenMeInfo, WriteMeInfo, connVars
<1>7. CASE TransferClient
  <2>1. pc \in Uploading
    BY <1>7, ClientSteps
  <2>2. connected
    BY <2>1
  <2> QED
    BY <1>7, <2>2, ClientSteps
<1>8. CASE RunServer
  <2>1. UNCHANGED <<pc, connected>>
    <3>1. \A code, payload : Reply(code, payload) => UNCHANGED connected
      BY DEF Reply
    <3> QED
      BY <1>8, <3>1 DEF RunServer, ServerRegisters, ServerReconnects, ServerListsKey,
         ServerRefusesClient, TransferServer, ServerStores, ServerAccepts,
         ServerAcknowledges, ServerRefuses, clientVars
  <2> QED
    BY <1>3, <2>1
<1>9. CASE FileChanges \/ UNCHANGED vars
  <2>1. UNCHANGED <<pc, connected>>
    BY <1>9 DEF FileChanges, connVars, clientVars, vars, transferVars
  <2> QED
    BY <1>3, <2>1
<1>10. CASE ServerGoes
  BY <1>10 DEF ServerGoes, ServerCloses
<1> QED
  BY <1>1, <1>2, <1>4, <1>5, <1>6, <1>7, <1>8, <1>9, <1>10
  DEF Next, RunClient, Surroundings

\* saveMeInfo saves the client's unique identifier, as documented, if every
\* reply arrives whole: the server never closes in mid-session, and no reply
\* comes in pieces, which Connection leaves out (a payload that comes after its
\* header was read leaves the id as uninitialized as a close does).
THEOREM AssignedOnWholeReplies ==
  ASSUME ~MayClose, StaleId # UninitId
  PROVE  Spec => []SavedIdIsAssigned
<1> DEFINE Open == pc \notin {"off", "connect"} => connected
<1>1. Init => Open /\ SavedIdIsAssigned
  BY DEF Init, SavedIdIsAssigned, MeInfo
<1>2. ASSUME RunInv, Open, SavedIdIsAssigned, [Next]_vars
      PROVE  Open' /\ SavedIdIsAssigned'
  <2>1. Open'
    BY <1>2, StaysConnected
  <2>2. CASE UNCHANGED meInfo \/ WriteKeyOpenMeInfo
    BY <1>2, <2>1, <2>2 DEF WriteKeyOpenMeInfo, SavedIdIsAssigned
  <2>3. CASE WriteMeInfo
    <3>1. meInfo' = meInfo \/ meInfo' = MeInfo(clientName, clientId, privateKey)
      BY <2>3 DEF WriteMeInfo
    <3>2. clientId # UninitId
      BY <1>2, <2>3, RunAssumption DEF WriteMeInfo, RunInv, TypeOK, GrantedInv, RunAssumption
    <3> QED
      BY <1>2, <2>1, <3>1, <3>2 DEF SavedIdIsAssigned, MeInfo
  <2> QED
    BY <1>2, <2>1, <2>2, <2>3, WhoWritesMeInfo
<1> QED
  BY <1>1, <1>2, RunInvariance, PTL DEF Spec

\* readMeInfo finds a name in me.info, as documented, in a world where
\* transfer.info gives one, no process is killed and the disk works: then
\* nothing comes between saveMeInfo's open, which empties the file, and its
\* write.  A transfer.info whose name is empty is accepted by the client.
THEOREM NamedUnlessInterrupted ==
  ASSUME ~MayCrash, ~DiskMayFail, TransferName # EmptyName
  PROVE  Spec => []AlwaysNamed
<1> DEFINE Named == /\ clientName # EmptyName
                    /\ meInfo # NoFile /\ meInfo.name = EmptyName => pc = "write_me_info"
<1>1. Init => Named
  BY RunAssumption DEF Init, MeInfo, RunAssumption
<1>2. ASSUME RunInv, Named, [Next]_vars PROVE Named'
  <2>1. CASE Start
    BY <1>2, <2>1, RunAssumption DEF Start, diskVars, RunAssumption
  <2>2. CASE OpenKeyFile
    BY <1>2, <2>2 DEF OpenKeyFile, NoError
  <2>3. CASE WriteKeyOpenMeInfo
    BY <1>2, <2>3 DEF WriteKeyOpenMeInfo, NoError
  <2>4. CASE WriteMeInfo
    BY <1>2, <2>4 DEF WriteMeInfo, MeInfo, processVars
  <2>5. ASSUME UNCHANGED meInfo, UNCHANGED clientName \/ clientName' = TransferName,
               pc = "write_me_info" => pc' = pc
        PROVE  Named'
    BY <1>2, <2>5, RunAssumption DEF RunAssumption
  <2>6. CASE Connect \/ SendRegistration \/ SendReconnection \/ SendPublicKey \/ Exit
    BY <2>5, <2>6 DEF Connect, SendRegistration, SendReconnection, ConnectionRequest,
       SendPublicKey, Exit, runVars, processVars, diskVars
  <2>7. CASE RegistrationAnswered \/ ReconnectionAnswered
    BY <2>5, <2>7 DEF RegistrationAnswered, ReconnectionAnswered, diskVars
  <2>8. CASE KeyAnswered
    BY <2>5, <2>8 DEF KeyAnswered, RuntimeError, NoError, diskVars
  <2>9. CASE TransferClient /\ UNCHANGED runVars
    BY <2>5, <2>9, ClientSteps DEF runVars, processVars, diskVars
  <2>10. CASE RunServer \/ Surroundings
    BY <2>5, <2>10 DEF RunServer, ServerRegisters, ServerReconnects, ServerListsKey,
       ServerRefusesClient, TransferServer, ServerStores, ServerAccepts, ServerAcknowledges,
       ServerRefuses, Surroundings, ServerGoes, FileChanges, Crash, clientVars, runVars,
       processVars, diskVars
  <2>11. CASE UNCHANGED vars
    BY <2>5, <2>11 DEF vars, transferVars, clientVars, runVars, processVars, diskVars
  <2> QED
    BY <1>2, <2>1, <2>2, <2>3, <2>4, <2>6, <2>7, <2>8, <2>9, <2>10, <2>11 DEF Next, RunClient
<1>3. Named => AlwaysNamed
  BY DEF AlwaysNamed
<1> QED
  BY <1>1, <1>2, <1>3, RunInvariance, PTL DEF Spec


\* Until the catch clause connects again, a run with a me.info acts under the
\* name found there and a run without one registers; and where a rejection
\* arrived over an open connection, the server lists no key for that name.
FirstFlow ==
  \/ pc = "connect" /\ sockets = 0
  \/ pc \in {"register", "reconnect", AwaitRegistration, AwaitReconnection} /\ sockets = 1

Rejected ==
  /\ connected
  /\ \/ pc \in {"register", AwaitRegistration} /\ inTry
     \/ /\ pc = AwaitReconnection /\ responses # <<>>
        /\ Head(responses).code = RECONNECT_REJECTED

FirstFlowInv ==
  /\ pc \notin {"off", "connect"} => sockets # 0
  /\ FirstFlow => IF inTry THEN meInfo # NoFile /\ clientName = meInfo.name
                           ELSE meInfo = NoFile
  /\ Rejected => publicKey[clientName] = 0

\* What the flows before a grant do to it.
LEMMA FlowKeepsFirst ==
  ASSUME RunInv, ~DiskMayFail, FirstFlowInv,
         Start \/ Connect \/ SendRegistration \/ SendReconnection
           \/ RegistrationAnswered \/ ReconnectionAnswered
  PROVE  FirstFlowInv'
<1>0. sockets \in 0 .. 2
  BY DEF RunInv, TypeOK
<1>1. CASE Start
  BY <1>1 DEF Start, diskVars, FirstFlowInv, FirstFlow, Rejected
<1>2. CASE Connect
  <2>1. CASE pc' = "off"
    BY <2>1 DEF FirstFlowInv, FirstFlow, Rejected
  <2>2. CASE pc' # "off"
    BY <1>0, <1>2, <2>2 DEF Connect, diskVars, FirstFlowInv, FirstFlow, Rejected
  <2> QED
    BY <2>1, <2>2
<1>3. ASSUME NEW flow \in {"register", "reconnect"}, NEW code, NEW await,
             ConnectionRequest(flow, code, await),
             flow = "register" => await = AwaitRegistration,
             flow = "reconnect" => await = AwaitReconnection
      PROVE  FirstFlowInv'
  <2>1. /\ pc = flow /\ (pc' = await \/ pc' = "killed")
        /\ UNCHANGED <<responses, connected, inTry, clientName, sockets, meInfo, publicKey>>
    BY <1>3 DEF ConnectionRequest, SendAndAwait, runVars, processVars, diskVars, accountVars
  <2>2. responses' = <<>>
    BY <2>1 DEF RunInv, HandshakeInv
  <2>3. pc' = "killed" \/ (pc = "register" /\ pc' = AwaitRegistration)
          \/ (pc = "reconnect" /\ pc' = AwaitReconnection)
    BY <1>3, <2>1
  <2> QED
    BY <2>1, <2>2, <2>3 DEF FirstFlowInv, FirstFlow, Rejected
<1>4. CASE SendRegistration
  BY <1>3, <1>4 DEF SendRegistration
<1>5. CASE SendReconnection
  BY <1>3, <1>5 DEF SendReconnection
<1>6. CASE RegistrationAnswered
  BY <1>6 DEF RegistrationAnswered, Granted, FirstFlowInv, FirstFlow, Rejected
<1>7. CASE ReconnectionAnswered
  <2>1. PICK r \in GetResponse :
          \/ pc' \in {"save_key", "off"}
          \/ r.code = RECONNECT_REJECTED /\ pc' = "register"
    BY <1>7 DEF ReconnectionAnswered, Granted
  <2>2. /\ pc = AwaitReconnection
        /\ UNCHANGED <<connected, inTry, clientName, sockets, meInfo, publicKey>>
    BY <1>7 DEF ReconnectionAnswered, diskVars, accountVars
  <2>3. CASE pc' \in {"save_key", "off"}
    BY <2>2, <2>3 DEF FirstFlowInv, FirstFlow, Rejected
  <2>4. CASE r.code = RECONNECT_REJECTED /\ pc' = "register"
    <3>1. connected => responses # <<>> /\ Head(responses) = r
      BY DEF GetResponse
    <3>2. connected => Rejected
      BY <2>2, <2>4, <3>1 DEF Rejected
    <3> QED
      BY <2>2, <2>4, <3>2 DEF FirstFlowInv, FirstFlow, Rejected
  <2> QED
    BY <2>1, <2>3, <2>4
<1> QED
  BY <1>1, <1>2, <1>4, <1>5, <1>6, <1>7

\* A granted client is past it: it comes back only by the catch clause, with a
\* connection already made.
LEMMA GrantedKeepsFirst ==
  ASSUME ~DiskMayFail, FirstFlowInv,
         OpenKeyFile \/ WriteKeyOpenMeInfo \/ WriteMeInfo \/ SendPublicKey \/ KeyAnswered
           \/ (TransferClient /\ UNCHANGED runVars) \/ Exit \/ Crash
  PROVE  FirstFlowInv'
<1>1. CASE Exit \/ Crash
  BY <1>1 DEF Exit, Crash, FirstFlowInv, FirstFlow, Rejected
<1>2. ASSUME pc \notin {"off", "connect"}, UNCHANGED sockets,
             pc' \in Saving \cup Transferring \cup {AwaitKey, "off", "connect"}
      PROVE  FirstFlowInv'
  BY <1>2 DEF FirstFlowInv, FirstFlow, Rejected
<1>3. CASE OpenKeyFile \/ WriteKeyOpenMeInfo \/ WriteMeInfo
  BY <1>2, <1>3 DEF OpenKeyFile, WriteKeyOpenMeInfo, WriteMeInfo, processVars
<1>4. CASE SendPublicKey
  BY <1>2, <1>4 DEF SendPublicKey, SendAndAwait, runVars, processVars
<1>5. CASE KeyAnswered
  BY <1>2, <1>5 DEF KeyAnswered, RuntimeError
<1>6. CASE TransferClient /\ UNCHANGED runVars
  <2>1. pc \in {"loop"} \cup TransferAwaiting
    BY <1>6, ClientSteps
  <2>2. pc' \in Transferring
    BY <1>6, TransferStays
  <2> QED
    BY <1>2, <1>6, <2>1, <2>2 DEF runVars, processVars
<1> QED
  BY <1>1, <1>3, <1>4, <1>5, <1>6

\* The server rejects a reconnection only under a name for which it lists no
\* key, and lists none while the client registers.
LEMMA SurroundingsKeepFirst ==
  ASSUME RunAssumption, RunInv, FirstFlowInv,
         \/ RunServer \/ UNCHANGED vars
         \/ (ServerGoes \/ FileChanges) /\ UNCHANGED runVars
  PROVE  FirstFlowInv'
<1>1. UNCHANGED <<pc, inTry, clientName, sockets, meInfo>>
  BY DEF RunServer, ServerRegisters, ServerReconnects, ServerListsKey, ServerRefusesClient,
     TransferServer, ServerStores, ServerAccepts, ServerAcknowledges, ServerRefuses,
     ServerGoes, FileChanges, clientVars, vars, transferVars, runVars, processVars, diskVars
<1>2. ASSUME Rejected' => publicKey'[clientName] = 0
      PROVE  FirstFlowInv'
  BY <1>1, <1>2 DEF FirstFlowInv, FirstFlow
<1>3. CASE UNCHANGED <<responses, connected, publicKey>>
  BY <1>1, <1>2, <1>3 DEF FirstFlowInv, Rejected
<1>4. CASE (FileChanges /\ UNCHANGED runVars) \/ UNCHANGED vars
  BY <1>3, <1>4 DEF FileChanges, connVars, vars, transferVars, runVars, accountVars
<1>5. CASE ServerGoes
  BY <1>2, <1>5 DEF ServerGoes, ServerCloses, Rejected
<1>6. ASSUME NEW c \in RequestCode, Takes(c), NEW code, NEW payload, Reply(code, payload),
             c \in {REGISTRATION, RECONNECT} => UNCHANGED publicKey,
             c = RECONNECT /\ code = RECONNECT_REJECTED => publicKey[Asked] = 0
      PROVE  FirstFlowInv'
  <2>1. /\ connected /\ connected \in BOOLEAN /\ responses = <<>>
        /\ pc \in HandshakeAwaiting => AwaitedRequest(pc) = c /\ Asked = Outstanding.payload
        /\ pc \in {"off", "connect"} \cup HandshakeAwaiting \cup TransferAwaiting
    BY <1>6, TakeRequest
  <2>2. SUFFICES ASSUME Rejected' PROVE publicKey'[clientName] = 0
    BY <1>2
  <2>3. CASE pc = AwaitRegistration
    <3>1. c = REGISTRATION /\ Rejected
      BY <1>1, <2>1, <2>2, <2>3, AwaitedCodes DEF Rejected
    <3> QED
      BY <1>6, <3>1 DEF FirstFlowInv
  <2>4. CASE pc = AwaitReconnection
    <3>1. c = RECONNECT /\ Asked = clientName
      BY <2>1, <2>4, AwaitedCodes DEF Outstanding
    <3>2. responses' = <<[code |-> code, payload |-> payload]>>
      BY <1>1, <1>6, <2>1, <2>2, <2>4, ReplyOnIdle DEF Rejected
    <3>3. code = RECONNECT_REJECTED
      BY <1>1, <2>2, <2>4, <3>2, OneMessage DEF Rejected
    <3> QED
      BY <1>6, <3>1, <3>3
  <2> QED
    BY <1>1, <2>1, <2>2, <2>3, <2>4 DEF Rejected
<1>7. CASE ServerRegisters
  BY <1>6, <1>7 DEF ServerRegisters
<1>8. CASE ServerReconnects
  <2>1. Takes(RECONNECT) /\ UNCHANGED publicKey
    BY <1>8 DEF ServerReconnects, runVars, accountVars
  <2>2. CASE Asked \in registered /\ publicKey[Asked] # 0
    <3>1. Reply(APPROVE_RECONNECT_SEND_AES, Asked)
      BY <1>8, <2>2 DEF ServerReconnects
    <3> QED
      BY <1>6, <2>1, <3>1
  <2>3. CASE ~(Asked \in registered /\ publicKey[Asked] # 0)
    <3>1. Reply(RECONNECT_REJECTED, EmptyPayload)
      BY <1>8, <2>3 DEF ServerReconnects
    <3>2. Asked \in Name
      BY <2>1, TakeRequest DEF SentRequest
    <3>3. publicKey[Asked] = 0
      BY <2>3, <3>2 DEF RunInv, AccountInv
    <3> QED
      BY <1>6, <2>1, <3>1, <3>3
  <2> QED
    BY <2>2, <2>3
<1>9. CASE ServerListsKey
  BY <1>6, <1>9 DEF ServerListsKey
<1>10. CASE ServerRefusesClient
  BY <1>6, <1>10 DEF ServerRefusesClient, runVars, accountVars
<1>11. CASE TransferServer /\ UNCHANGED runVars
  <2>1. PICK c \in SEND_FILE .. CRC_INCORRECT_DONE : Takes(c)
    BY <1>11 DEF TransferServer, ServerStores, ServerAccepts, ServerAcknowledges, ServerRefuses
  <2>2. \E code, payload : Reply(code, payload)
    BY <1>11 DEF TransferServer, ServerStores, ServerAccepts, ServerAcknowledges, ServerRefuses
  <2>3. UNCHANGED publicKey
    BY <1>11 DEF runVars, accountVars
  <2> QED
    BY <1>6, <2>1, <2>2, <2>3
<1> QED
  BY <1>4, <1>5, <1>7, <1>8, <1>9, <1>10, <1>11 DEF RunServer

\* handleClient registers a user who has a me.info only if the server is not
\* familiar with him, as documented, as long as the run has not connected a
\* second time, the connection is open and the disk works: the fallback inside
\* handleReconnection is right, and what registers a familiar user is the catch
\* clause (src/main.cpp) or a reply that never came whole.
THEOREM FirstRegistersUnfamiliar ==
  ASSUME ~DiskMayFail
  PROVE  Spec => [](sockets = 1 /\ connected => RegistersOnlyIfUnfamiliar)
<1>1. Init => FirstFlowInv
  BY DEF Init, FirstFlowInv, FirstFlow, Rejected
<1>2. ASSUME RunInv, FirstFlowInv, [Next]_vars PROVE FirstFlowInv'
  BY <1>2, FlowKeepsFirst, GrantedKeepsFirst, SurroundingsKeepFirst, RunAssumption
  DEF Next, RunClient, Surroundings
<1>3. FirstFlowInv => (sockets = 1 /\ connected => RegistersOnlyIfUnfamiliar)
  BY DEF FirstFlowInv, FirstFlow, Rejected, RegistersOnlyIfUnfamiliar
<1> QED
  BY <1>1, <1>2, <1>3, RunInvariance, PTL DEF Spec
=============================================================================
